---------------------------- MODULE Spec2Model ----------------------------
(***************************************************************************)
(* Model of the filter engine (utils.check_filter_arg), the version        *)
(* selection policy (ms_workloads._ms_workloads_list.filter_versions) and  *)
(* the remote-connection reconciler (nodes_remote_connections) of          *)
(* nerve_cli.                                                              *)
(*                                                                         *)
(* Python values are tagged records: None, bool, int and str; a str is a   *)
(* sequence of one-character strings so that prefixes, suffixes and        *)
(* regular-expression search can be computed as the code computes them.    *)
(***************************************************************************)
EXTENDS Integers, Sequences, FiniteSets, TLC

VARIABLES
    cmd_line_filter,    \* check_filter_arg: the filter argument
    data_value,         \* check_filter_arg: the field value
    ret_val,            \* check_filter_arg: "pending", "True" or "False"
    workload_versions,  \* filter_versions: workload["versions"], the caller's list
    args,               \* filter_versions: the version_* arguments
    fv_result,          \* filter_versions: [status, versions]
    nodes,              \* nodes_remote_connections: the nodes file
    file_remotes,       \* nodes_remote_connections: the remotes file
    ms_remotes,         \* management system: serial number -> remote connections
    existing_remotes,   \* nodes_remote_connections: node name -> observed connections
    tunnels_to_add,     \* nodes_remote_connections: ordered dict, <<[key, value], ...>>
    tunnels_to_remove,  \* nodes_remote_connections: ordered dict, <<[key, value], ...>>
    rc_pc,              \* nodes_remote_connections: position in the handler
    rc_args,            \* nodes_remote_connections: the action given, "add" or "delete"
    rc_run,             \* nodes_remote_connections: 1 for the first run of the command, 2 for a repeat
    rc_i,               \* nodes_remote_connections: items of tunnels_to_add done
    rc_log,             \* nodes_remote_connections: what log.info reported
    ms_calls,           \* management system: the calls received, in order
    labels_file,        \* labels: the labels file, a list of {"key", "value"}
    ms_labels,          \* management system: the labels it holds
    lb_pc,              \* labels: position in the handler
    lb_i,               \* labels: labels of the file done
    ms_label_calls,     \* management system: the label calls received, in order
    workloads_file,     \* ms_workloads delete: the workloads file
    ms_versions,        \* management system: workload name -> names of its versions
    wd_pc,              \* ms_workloads delete: position in the handler
    wd_i,               \* ms_workloads delete: workloads of the file done
    wd_j,               \* ms_workloads delete: versions of the current workload done
    wd_log,             \* ms_workloads delete: what was logged
    wd_calls,           \* management system: the delete calls received, with their outcome
    rb_nodes,           \* nodes_reboot: the nodes file
    rb_yes,             \* nodes_reboot: args.yes
    rb_pc,              \* nodes_reboot: position in the handler
    rb_i,               \* nodes_reboot: nodes of the file done
    rb_log,             \* nodes_reboot: what was logged
    rb_trace,           \* nodes_reboot: the prompts shown and the reboot calls issued, in order
    cli_pc,             \* interactive session: "prompt", "exited" or "terminated"
    cli_history,        \* interactive session: the lines entered and how each ended
    file_ext,           \* nodes file: ".json" or ".yaml"
    file_text,          \* nodes file: its text, a sequence of tokens
    stored,             \* nodes file: the node list it held when the run started
    output,             \* nodes_list: the nodes listed by this run
    nl_pc,              \* nodes_list --add, then a command reading the nodes file
    read_result,        \* file_read: what it returned or raised
    fp_data,            \* find_path: the node tree
    fp_name,            \* find_path: the node name looked for
    fp_pc,              \* find_path: "call" or "returned"
    fp_result,          \* find_path: what it returned
    fp_joined,          \* nodes_list: "/".join(node["path"]) or the error raised
    ls_nodes,           \* nodes_list: ms_nodes.get_nodes(), each node with its details and workloads
    node_pathes,        \* nodes_list: the node tree of the management system
    ls_args,            \* nodes_list: the filter arguments
    ls_i,               \* nodes_list: nodes done
    ls_output,          \* nodes_list: the output list
    ls_pc,              \* nodes_list: "loop", "written" or "raised"
    main_args,          \* main: the parsed command line, [ms_url, ms_user, ms_password, store_credentials, func]
    credentials_ini,    \* credentials.ini: section -> option -> value
    environ,            \* os.environ: MS_URL, MS_USR and MS_PSW
    login,              \* NerveCLI._set_login: how it ended and self.ms_url, self.ms_user, self.ms_password
    cli,                \* main: the local variable cli, "unbound" until NerveCLI() has returned
    main_pc,            \* main: position in main
    main_run,           \* main: 1 for the first start of the program, 2 for the next one
    main_log,           \* main: what was logged, over both runs
    dna_nodes,          \* service_os_dna: the nodes file
    dna_args,           \* service_os_dna: the command flags and the put_target file name
    dna_file,           \* service_os_dna: the DNA file, [exists, content]
    dna_i,              \* service_os_dna: nodes of the file done
    dna_log,            \* service_os_dna: what was logged
    dna_calls,          \* management system: the ServiceOS DNA calls received
    dna_pc              \* service_os_dna: "loop", "done" or "raised"

filter_vars == <<cmd_line_filter, data_value, ret_val>>
version_vars == <<workload_versions, args, fv_result>>
remote_vars ==
    <<nodes, file_remotes, ms_remotes, existing_remotes, tunnels_to_add, tunnels_to_remove,
      rc_pc, rc_args, rc_run, rc_i, rc_log, ms_calls>>
label_vars == <<labels_file, ms_labels, lb_pc, lb_i, ms_label_calls>>
delete_vars == <<workloads_file, ms_versions, wd_pc, wd_i, wd_j, wd_log, wd_calls>>
reboot_vars == <<rb_nodes, rb_yes, rb_pc, rb_i, rb_log, rb_trace>>
cli_vars == <<cli_pc, cli_history>>
file_vars == <<file_ext, file_text, stored, output, nl_pc, read_result>>
path_vars == <<fp_data, fp_name, fp_pc, fp_result, fp_joined>>
list_vars == <<ls_nodes, node_pathes, ls_args, ls_i, ls_output, ls_pc>>
main_vars == <<main_args, credentials_ini, environ, login, cli, main_pc, main_run, main_log>>
dna_vars == <<dna_nodes, dna_args, dna_file, dna_i, dna_log, dna_calls, dna_pc>>
vars ==
    <<cmd_line_filter, data_value, ret_val, workload_versions, args, fv_result,
      nodes, file_remotes, ms_remotes, existing_remotes, tunnels_to_add, tunnels_to_remove,
      rc_pc, rc_args, rc_run, rc_i, rc_log, ms_calls,
      labels_file, ms_labels, lb_pc, lb_i, ms_label_calls,
      workloads_file, ms_versions, wd_pc, wd_i, wd_j, wd_log, wd_calls,
      rb_nodes, rb_yes, rb_pc, rb_i, rb_log, rb_trace,
      cli_pc, cli_history,
      file_ext, file_text, stored, output, nl_pc, read_result,
      fp_data, fp_name, fp_pc, fp_result, fp_joined,
      ls_nodes, node_pathes, ls_args, ls_i, ls_output, ls_pc,
      main_args, credentials_ini, environ, login, cli, main_pc, main_run, main_log,
      dna_nodes, dna_args, dna_file, dna_i, dna_log, dna_calls, dna_pc>>

-----------------------------------------------------------------------------
(* Bounds of the model *)

MaxStrLen == 3        \* longest plain string (filter or field value)
MaxPatLen == 2        \* longest regular expression after "regex:"
MaxInt == 2           \* integers 0..MaxInt as filters and field values

-----------------------------------------------------------------------------
(* Python values *)

None == [t |-> "none"]
PyBool(b) == [t |-> "bool", v |-> b]
PyInt(n) == [t |-> "int", v |-> n]
PyStr(s) == [t |-> "str", v |-> s]

IsNone(x) == x.t = "none"
IsBool(x) == x.t = "bool"
\* isinstance(x, int): bool is a subclass of int
IsInt(x) == x.t \in {"int", "bool"}
IsStr(x) == x.t = "str"

\* The numeric value of an int or a bool (True is 1, False is 0)
NumOf(x) == IF x.t = "bool" THEN (IF x.v THEN 1 ELSE 0) ELSE x.v

\* Python's ==
PyEq(a, b) ==
    IF IsNone(a) \/ IsNone(b) THEN IsNone(a) /\ IsNone(b)
    ELSE IF IsStr(a) \/ IsStr(b) THEN IsStr(a) /\ IsStr(b) /\ a.v = b.v
    ELSE NumOf(a) = NumOf(b)

\* Python's truth value
Truthy(x) ==
    CASE x.t = "none" -> FALSE
      [] x.t = "bool" -> x.v
      [] x.t = "int" -> x.v # 0
      [] x.t = "str" -> x.v # <<>>

SeqsUpTo(S, n) == UNION {[1..k -> S] : k \in 0..n}

-----------------------------------------------------------------------------
(* One command runs at a time: the state of the commands that are not      *)
(* running is at rest and stays so.                                         *)

IdleFilter ==
    /\ cmd_line_filter = None
    /\ data_value = None
    /\ ret_val = "idle"

IdleVersions ==
    /\ workload_versions = <<>>
    /\ args = <<>>
    /\ fv_result = <<>>

IdleRemotes ==
    /\ nodes = <<>>
    /\ file_remotes = <<>>
    /\ ms_remotes = <<>>
    /\ existing_remotes = <<>>
    /\ tunnels_to_add = <<>>
    /\ tunnels_to_remove = <<>>
    /\ rc_pc = "idle"
    /\ rc_args = "idle"
    /\ rc_run = 0
    /\ rc_i = 0
    /\ rc_log = <<>>
    /\ ms_calls = <<>>

IdleLabels ==
    /\ labels_file = <<>>
    /\ ms_labels = {}
    /\ lb_pc = "idle"
    /\ lb_i = 0
    /\ ms_label_calls = <<>>

IdleDelete ==
    /\ workloads_file = <<>>
    /\ ms_versions = <<>>
    /\ wd_pc = "idle"
    /\ wd_i = 0
    /\ wd_j = 0
    /\ wd_log = <<>>
    /\ wd_calls = <<>>

IdleReboot ==
    /\ rb_nodes = <<>>
    /\ rb_yes = FALSE
    /\ rb_pc = "idle"
    /\ rb_i = 0
    /\ rb_log = <<>>
    /\ rb_trace = <<>>

IdleCli ==
    /\ cli_pc = "idle"
    /\ cli_history = <<>>

IdleFile ==
    /\ file_ext = ".json"
    /\ file_text = <<>>
    /\ stored = <<>>
    /\ output = <<>>
    /\ nl_pc = "idle"
    /\ read_result = <<>>

IdlePath ==
    /\ fp_data = <<>>
    /\ fp_name = ""
    /\ fp_pc = "idle"
    /\ fp_result = <<>>
    /\ fp_joined = <<>>

IdleList ==
    /\ ls_nodes = <<>>
    /\ node_pathes = <<>>
    /\ ls_args = <<>>
    /\ ls_i = 0
    /\ ls_output = <<>>
    /\ ls_pc = "idle"

IdleMain ==
    /\ main_args = <<>>
    /\ credentials_ini = <<>>
    /\ environ = <<>>
    /\ login = <<>>
    /\ cli = "unbound"
    /\ main_pc = "idle"
    /\ main_run = 0
    /\ main_log = <<>>

IdleDna ==
    /\ dna_nodes = <<>>
    /\ dna_args = <<>>
    /\ dna_file = <<>>
    /\ dna_i = 0
    /\ dna_log = <<>>
    /\ dna_calls = <<>>
    /\ dna_pc = "idle"

\* every command but one is at rest
OthersIdle(running) ==
    /\ IF running = "filter" THEN TRUE ELSE IdleFilter
    /\ IF running = "versions" THEN TRUE ELSE IdleVersions
    /\ IF running = "remotes" THEN TRUE ELSE IdleRemotes
    /\ IF running = "labels" THEN TRUE ELSE IdleLabels
    /\ IF running = "delete" THEN TRUE ELSE IdleDelete
    /\ IF running = "reboot" THEN TRUE ELSE IdleReboot
    /\ IF running = "cli" THEN TRUE ELSE IdleCli
    /\ IF running = "file" THEN TRUE ELSE IdleFile
    /\ IF running = "path" THEN TRUE ELSE IdlePath
    /\ IF running = "list" THEN TRUE ELSE IdleList
    /\ IF running = "main" THEN TRUE ELSE IdleMain
    /\ IF running = "dna" THEN TRUE ELSE IdleDna

\* a step of one command leaves the state of the others alone
OthersUnchanged(running) ==
    /\ IF running = "filter" THEN TRUE ELSE UNCHANGED filter_vars
    /\ IF running = "versions" THEN TRUE ELSE UNCHANGED version_vars
    /\ IF running = "remotes" THEN TRUE ELSE UNCHANGED remote_vars
    /\ IF running = "labels" THEN TRUE ELSE UNCHANGED label_vars
    /\ IF running = "delete" THEN TRUE ELSE UNCHANGED delete_vars
    /\ IF running = "reboot" THEN TRUE ELSE UNCHANGED reboot_vars
    /\ IF running = "cli" THEN TRUE ELSE UNCHANGED cli_vars
    /\ IF running = "file" THEN TRUE ELSE UNCHANGED file_vars
    /\ IF running = "path" THEN TRUE ELSE UNCHANGED path_vars
    /\ IF running = "list" THEN TRUE ELSE UNCHANGED list_vars
    /\ IF running = "main" THEN TRUE ELSE UNCHANGED main_vars
    /\ IF running = "dna" THEN TRUE ELSE UNCHANGED dna_vars

-----------------------------------------------------------------------------
(* utils.check_filter_arg *)

RegexPrefix == <<"r", "e", "g", "e", "x", ":">>

\* str.startswith
StartsWith(s, p) == Len(s) >= Len(p) /\ SubSeq(s, 1, Len(p)) = p

\* The regular expressions modelled: a sequence of atoms, each a literal
\* character or "." (any character).  RegexMatchAt is a match of the whole
\* pattern starting at position i of s.
RegexMatchAt(p, s, i) ==
    /\ i + Len(p) - 1 <= Len(s)
    /\ \A k \in 1..Len(p) : p[k] = "." \/ p[k] = s[i + k - 1]

\* re.match semantics: only at the start of the string
RegexSearch_AtStartOnly(p, s) == RegexMatchAt(p, s, 1)

\* re.compile(p).search(s): scan every start position
RegexSearch(p, s) == \E i \in 1..(Len(s) + 1) : RegexMatchAt(p, s, i)

\* The sentinel test without the empty-string case
CheckFilterArg_NoEmptySentinel(f, d) ==
    IF IsNone(f) THEN TRUE
    ELSE IF IsStr(f) /\ StartsWith(f.v, RegexPrefix)
         THEN IsStr(d) /\ RegexSearch(SubSeq(f.v, 7, Len(f.v)), d.v)
         ELSE PyEq(f, d)

CheckFilterArg(f, d) ==
    IF (IsStr(f) /\ f.v = <<>>) \/ IsNone(f) THEN TRUE
    ELSE IF Truthy(f)
         THEN IF IsBool(f) THEN PyEq(f, d)
              ELSE IF IsInt(f) THEN PyEq(f, d)
              ELSE IF StartsWith(f.v, RegexPrefix)
                   THEN IF IsStr(d)
                        THEN RegexSearch(SubSeq(f.v, 7, Len(f.v)), d.v)
                        ELSE FALSE
                   ELSE PyEq(f, d)
         ELSE FALSE

PyBoolStr(b) == IF b THEN "True" ELSE "False"

Alphabet == {"a", "b"}
PatternAlphabet == {"a", "b", "."}

PlainStrings == SeqsUpTo(Alphabet, MaxStrLen) \cup {<<"r", "e", "g", "e", "x">>}
Patterns == SeqsUpTo(PatternAlphabet, MaxPatLen)

FilterSpecs ==
    {None, PyBool(TRUE), PyBool(FALSE)}
        \cup {PyInt(n) : n \in 0..MaxInt}
        \cup {PyStr(s) : s \in PlainStrings}
        \cup {PyStr(RegexPrefix \o p) : p \in Patterns}

DataValues ==
    {None, PyBool(TRUE), PyBool(FALSE)}
        \cup {PyInt(n) : n \in 0..MaxInt}
        \cup {PyStr(s) : s \in PlainStrings}

InitFilter ==
    /\ cmd_line_filter \in FilterSpecs
    /\ data_value \in DataValues
    /\ ret_val = "pending"

\* One call check_filter_arg(cmd_line_filter, data_value)
CallCheckFilterArg ==
    /\ ret_val = "pending"
    /\ ret_val' = PyBoolStr(CheckFilterArg(cmd_line_filter, data_value))
    /\ UNCHANGED <<cmd_line_filter, data_value>>

NextFilter == CallCheckFilterArg /\ OthersUnchanged("filter")

InitSpecFilter == InitFilter /\ OthersIdle("filter")

SpecFilter == InitSpecFilter /\ [][NextFilter]_vars

-----------------------------------------------------------------------------
(* Python helpers used by filter_versions *)

\* dict.get(k, default)
Get(d, k, default) == IF k \in DOMAIN d THEN d[k] ELSE default

\* s[-n:]
LastN(s, n) == SubSeq(s, (IF Len(s) > n THEN Len(s) - n + 1 ELSE 1), Len(s))

\* s[:-n]
DropLastN(s, n) == SubSeq(s, 1, Len(s) - n)

DigitChars == {"0", "1", "2", "3", "4", "5", "6", "7", "8", "9"}

DigitVal(c) ==
    CASE c = "0" -> 0 [] c = "1" -> 1 [] c = "2" -> 2 [] c = "3" -> 3 [] c = "4" -> 4
      [] c = "5" -> 5 [] c = "6" -> 6 [] c = "7" -> 7 [] c = "8" -> 8 [] c = "9" -> 9

RECURSIVE DigitsVal(_)
DigitsVal(s) ==
    IF s = <<>> THEN 0
    ELSE 10 * DigitsVal(SubSeq(s, 1, Len(s) - 1)) + DigitVal(s[Len(s)])

\* int(text) and float(text) on the texts of the model: an optional sign and
\* at least one decimal digit; anything else raises ValueError (ok = FALSE).
\* Texts with a fraction, an exponent, blanks or underscores are not modelled.
ParseNumber(s) ==
    LET signed == s # <<>> /\ s[1] \in {"-", "+"}
        digits == IF signed THEN SubSeq(s, 2, Len(s)) ELSE s
    IN  IF digits # <<>> /\ \A k \in 1..Len(digits) : digits[k] \in DigitChars
        THEN [ok |-> TRUE,
              v |-> IF signed /\ s[1] = "-" THEN 0 - DigitsVal(digits) ELSE DigitsVal(digits)]
        ELSE [ok |-> FALSE, v |-> 0]

\* int(file["size"]): the size is an int or a decimal text
IntOf(x) == IF IsStr(x) THEN ParseNumber(x.v).v ELSE NumOf(x)

\* str.split(":")
RECURSIVE SplitColon(_)
SplitColon(s) ==
    IF \A k \in 1..Len(s) : s[k] # ":" THEN <<s>>
    ELSE LET i == CHOOSE k \in 1..Len(s) :
                      s[k] = ":" /\ \A j \in 1..(k - 1) : s[j] # ":"
         IN  <<SubSeq(s, 1, i - 1)>> \o SplitColon(SubSeq(s, i + 1, Len(s)))

\* A timestamp text "YYYY-MM-DDTHH:MM:SS.ffffffZ" is represented by the tuple
\* <<Y, M, D, h, m, s, f>> of the numbers its directives delimit, a date text
\* "YYYY-MM-DD" by <<Y, M, D>>.
\* datetime.strptime(text, "%Y-%m-%dT%H:%M:%S.%fZ")
StrptimeTimestamp(ts) ==
    [year |-> ts[1], month |-> ts[2], day |-> ts[3],
     hour |-> ts[4], minute |-> ts[5], second |-> ts[6], microsecond |-> ts[7]]

\* datetime.strptime(text, "%Y-%m-%d"): the time of day is midnight
StrptimeDate(d) ==
    [year |-> d[1], month |-> d[2], day |-> d[3],
     hour |-> 0, minute |-> 0, second |-> 0, microsecond |-> 0]

DatetimeFields(x) ==
    <<x.year, x.month, x.day, x.hour, x.minute, x.second, x.microsecond>>

\* datetime.__lt__: field by field, most significant first
DatetimeLess(a, b) ==
    LET fa == DatetimeFields(a)
        fb == DatetimeFields(b)
    IN  \E k \in 1..7 : fa[k] < fb[k] /\ \A j \in 1..(k - 1) : fa[j] = fb[j]

\* sorted(seq, key=...): stable, ascending by createdAt
CreatedKey(v) == StrptimeTimestamp(v["createdAt"])

RECURSIVE InsertByCreatedAt(_, _)
InsertByCreatedAt(sorted, x) ==
    IF sorted = <<>> THEN <<x>>
    ELSE IF DatetimeLess(CreatedKey(x), CreatedKey(sorted[Len(sorted)]))
         THEN InsertByCreatedAt(SubSeq(sorted, 1, Len(sorted) - 1), x)
                  \o <<sorted[Len(sorted)]>>
         ELSE sorted \o <<x>>

RECURSIVE InsertionSorted(_)
InsertionSorted(vs) ==
    IF vs = <<>> THEN <<>>
    ELSE InsertByCreatedAt(InsertionSorted(SubSeq(vs, 1, Len(vs) - 1)), vs[Len(vs)])

\* the newest version first
SortedByCreatedAt_Reversed(vs) ==
    LET asc == InsertionSorted(vs) IN [i \in 1..Len(asc) |-> asc[Len(asc) + 1 - i]]

\* lines 299-303: sorted(versions, key=createdAt, reverse=False)
SortedByCreatedAt(vs) == InsertionSorted(vs)

\* One bound of a slice, adjusted as seq[start:end] adjusts it; bound is None
\* or an int, dflt the value an omitted bound stands for
SliceBound(bound, n, dflt) ==
    IF IsNone(bound) THEN dflt
    ELSE IF bound.v < 0 THEN (IF bound.v + n < 0 THEN 0 ELSE bound.v + n)
    ELSE IF bound.v > n THEN n
    ELSE bound.v

\* seq[start:end]
PySlice(seq, start, end) ==
    LET lo == SliceBound(start, Len(seq), 0)
        hi == SliceBound(end, Len(seq), Len(seq))
    IN  IF hi <= lo THEN <<>> ELSE SubSeq(seq, lo + 1, hi)

-----------------------------------------------------------------------------
(* ms_workloads._ms_workloads_list.filter_versions *)

\* A version is a dict: a function from its keys ("name", "createdAt" and the
\* optional "releaseName", "files", "updatedAt", "overall_size") to values.

Returns(vs) == [status |-> "returned", versions |-> vs]
Raises(what) == [status |-> what, versions |-> <<>>]

InvalidSizeFormat == "ValueError: Invalid size format, must end with one of GB, MB, KB, B"
FloatValueError == "ValueError: could not convert string to float"
InvalidListFilter == "ValueError: Invalid version_list_filter format."
KeyErrorCreatedAt == "KeyError: 'createdAt'"

\* overall_size counted from the first file only
OverallSize_FirstFileOnly(v) ==
    LET files == Get(v, "files", <<>>)
    IN  IF files = <<>> THEN 0 ELSE IntOf(files[1]["size"])

RECURSIVE SumSizes(_)
SumSizes(files) ==
    IF files = <<>> THEN 0
    ELSE SumSizes(SubSeq(files, 1, Len(files) - 1)) + IntOf(files[Len(files)]["size"])

\* lines 257-259: the sum of int(file["size"]) over wl_version.get("files", [])
OverallSize(v) == SumSizes(Get(v, "files", <<>>))

\* line 260: wl_version["overall_size"] = overall_size
WithOverallSize(v) == ("overall_size" :> OverallSize(v)) @@ v

\* lines 253-254: the name and release name filters
PassesNameFilters(v, a) ==
    /\ CheckFilterArg(a.version_name, v["name"])
    /\ CheckFilterArg(a.version_release_name, Get(v, "releaseName", None))

\* float(number) * multiplier, then int(): [ok, v]
ScaledNumber(text, multiplier) ==
    LET n == ParseNumber(text)
    IN  IF n.ok THEN [status |-> "ok", v |-> n.v * multiplier]
        ELSE [status |-> FloatValueError, v |-> 0]

\* lines 266-276: the byte threshold of a version_size_above text
AllowedMaximum(text) ==
    IF LastN(text, 2) = <<"K", "B">> THEN ScaledNumber(DropLastN(text, 2), 1024)
    ELSE IF LastN(text, 2) = <<"M", "B">> THEN ScaledNumber(DropLastN(text, 2), 1024 * 1024)
    ELSE IF LastN(text, 2) = <<"G", "B">>
         THEN ScaledNumber(DropLastN(text, 2), 1024 * 1024 * 1024)
    ELSE IF LastN(text, 1) = <<"B">> THEN ScaledNumber(DropLastN(text, 1), 1)
    ELSE [status |-> InvalidSizeFormat, v |-> 0]

\* the comparison with >= in place of >
ExceedsMaximum_OrEqual(v, allowed_maximum) == v["overall_size"] >= allowed_maximum

\* line 278
ExceedsMaximum(v, allowed_maximum) == v["overall_size"] > allowed_maximum

\* lines 262-280: the threshold is computed inside the loop over the versions,
\* so a malformed text raises only when there is a version to look at
SizeStage(vs, text) ==
    IF vs = <<>> THEN Returns(<<>>)
    ELSE LET m == AllowedMaximum(text)
         IN  IF m.status # "ok" THEN Raises(m.status)
             ELSE Returns(SelectSeq(vs, LAMBDA v : ExceedsMaximum(v, m.v)))

\* the modification date taken from createdAt alone
LatestModificationDate_CreatedOnly(v) == StrptimeTimestamp(v["createdAt"])

\* lines 286-290: updatedAt when present, otherwise createdAt
LatestModificationDate(v) ==
    IF "updatedAt" \in DOMAIN v THEN StrptimeTimestamp(v["updatedAt"])
    ELSE StrptimeTimestamp(v["createdAt"])

\* lines 282-295: wl_version["createdAt"] is read for every version
DateStage(vs, date) ==
    IF \E i \in 1..Len(vs) : "createdAt" \notin DOMAIN vs[i] THEN Raises(KeyErrorCreatedAt)
    ELSE Returns(SelectSeq(vs, LAMBDA v :
                    DatetimeLess(LatestModificationDate(v), StrptimeDate(date))))

\* an index outside the list gives no version instead of an error
IndexSelect_EmptyWhenOutOfRange(sorted, index) ==
    IF index >= Len(sorted) \/ index < 0 - Len(sorted) THEN Returns(<<>>)
    ELSE Returns(<<sorted[(IF index < 0 THEN index + Len(sorted) ELSE index) + 1]>>)

\* line 313: [versions_sorted[index]]; IndexError becomes the ValueError of line 317
IndexSelect(sorted, index) ==
    IF index >= Len(sorted) \/ index < 0 - Len(sorted) THEN Raises(InvalidListFilter)
    ELSE Returns(<<sorted[(IF index < 0 THEN index + Len(sorted) ELSE index) + 1]>>)

\* int(part) if part else None: [ok, v] with v None or an int
SliceBoundOf(part) ==
    IF part = <<>> THEN [ok |-> TRUE, v |-> None]
    ELSE LET n == ParseNumber(part) IN [ok |-> n.ok, v |-> PyInt(n.v)]

\* lines 297-317
ListFilterStage(vs, text) ==
    IF \E i \in 1..Len(vs) : "createdAt" \notin DOMAIN vs[i] THEN Raises(KeyErrorCreatedAt)
    ELSE LET versions_sorted == SortedByCreatedAt(vs)
             slice_parts == SplitColon(text)
         IN  IF Len(slice_parts) = 2
             THEN LET start == SliceBoundOf(slice_parts[1])
                      end == SliceBoundOf(slice_parts[2])
                  IN  IF start.ok /\ end.ok
                      THEN Returns(PySlice(versions_sorted, start.v, end.v))
                      ELSE Raises(InvalidListFilter)
             ELSE IF Len(slice_parts) = 1
             THEN LET index == ParseNumber(slice_parts[1])
                  IN  IF index.ok THEN IndexSelect(versions_sorted, index.v)
                      ELSE Raises(InvalidListFilter)
             ELSE Raises(InvalidListFilter)

\* a range selection taken over the versions as they were before the size and
\* date filters
FilterVersions_RangeOverUnfiltered(versions, a) ==
    LET named == SelectSeq(versions, LAMBDA v : PassesNameFilters(v, a))
        sized == [i \in 1..Len(named) |-> WithOverallSize(named[i])]
        after_size == IF Truthy(a.version_size_above)
                      THEN SizeStage(sized, a.version_size_above.v)
                      ELSE Returns(sized)
        after_date == IF after_size.status = "returned" /\ Truthy(a.version_date_older_than)
                      THEN DateStage(after_size.versions, a.version_date_older_than.v)
                      ELSE after_size
    IN  IF after_date.status = "returned" /\ Truthy(a.version_list_filter)
        THEN ListFilterStage(sized, a.version_list_filter.v)
        ELSE after_date

\* lines 251-319
FilterVersions(versions, a) ==
    LET named == SelectSeq(versions, LAMBDA v : PassesNameFilters(v, a))
        sized == [i \in 1..Len(named) |-> WithOverallSize(named[i])]
        after_size == IF Truthy(a.version_size_above)
                      THEN SizeStage(sized, a.version_size_above.v)
                      ELSE Returns(sized)
        after_date == IF after_size.status = "returned" /\ Truthy(a.version_date_older_than)
                      THEN DateStage(after_size.versions, a.version_date_older_than.v)
                      ELSE after_size
    IN  IF after_date.status = "returned" /\ Truthy(a.version_list_filter)
        THEN ListFilterStage(after_date.versions, a.version_list_filter.v)
        ELSE after_date

\* line 260 assigns into the dicts of workload["versions"] themselves: every
\* version that passed the name filters carries overall_size afterwards
VersionsAfterCall(versions, a) ==
    [i \in 1..Len(versions) |->
        IF PassesNameFilters(versions[i], a) THEN WithOverallSize(versions[i])
        ELSE versions[i]]

Pending == [status |-> "pending", versions |-> <<>>]

\* line 394: filtered_versions = filter_versions(workload, args)
CallFilterVersions ==
    /\ fv_result = Pending
    /\ fv_result' = FilterVersions(workload_versions, args)
    /\ workload_versions' = VersionsAfterCall(workload_versions, args)
    /\ UNCHANGED args

NextVersions == CallFilterVersions /\ OthersUnchanged("versions")

-----------------------------------------------------------------------------
(* Inputs of filter_versions *)

MaxFilteredVersions == 2   \* versions of a workload, size and date filters
MaxRangeVersions == 3      \* versions of a workload, range selection

NoArgs ==
    [version_name |-> None, version_release_name |-> None,
     version_size_above |-> None, version_date_older_than |-> None,
     version_list_filter |-> None]

\* A version dict with its optional keys present or not
MkVersion(name, release, files, created, updated) ==
    [k \in {"name", "createdAt"}
            \cup (IF release.has THEN {"releaseName"} ELSE {})
            \cup (IF files.has THEN {"files"} ELSE {})
            \cup (IF updated.has THEN {"updatedAt"} ELSE {}) |->
        CASE k = "name" -> name
          [] k = "createdAt" -> created
          [] k = "releaseName" -> release.v
          [] k = "files" -> files.v
          [] k = "updatedAt" -> updated.v]

Absent == [has |-> FALSE, v |-> <<>>]
Present(x) == [has |-> TRUE, v |-> x]

T_2023_01_01 == <<2023, 1, 1, 0, 0, 0, 0>>
T_2023_05_31_Last == <<2023, 5, 31, 23, 59, 59, 999999>>
T_2023_06_01 == <<2023, 6, 1, 0, 0, 0, 0>>
T_2023_06_01_First == <<2023, 6, 1, 0, 0, 0, 1>>

\* int -> decimal text
DigitChar(d) == CHOOSE c \in DigitChars : DigitVal(c) = d

RECURSIVE Decimal(_)
Decimal(n) ==
    IF n < 10 THEN <<DigitChar(n)>> ELSE Decimal(n \div 10) \o <<DigitChar(n % 10)>>

UnitSuffixes == {<<"B">>, <<"K", "B">>, <<"M", "B">>, <<"G", "B">>}

UnitBytes(unit) ==
    CASE unit = <<"B">> -> 1
      [] unit = <<"K", "B">> -> 1024
      [] unit = <<"M", "B">> -> 1024 * 1024
      [] unit = <<"G", "B">> -> 1024 * 1024 * 1024

\* The well-formed size filters of the model, <<N, unit>>
SizeCases ==
    {<<0, <<"B">>>>, <<5, <<"B">>>>, <<1, <<"K", "B">>>>, <<2, <<"M", "B">>>>,
     <<1, <<"G", "B">>>>}

SizeText(c) == Decimal(c[1]) \o c[2]
SizeBytes(c) == c[1] * UnitBytes(c[2])

\* Size filters without one of the four unit suffixes
MalformedSizeTexts == {<<"5">>, <<"1", "k", "b">>, <<"1", "K", "b">>, <<"1", "0", "X">>}

\* version_size_above with the byte count the file sizes of the input are
\* placed around
SizeInputs ==
    {[text |-> None, around |-> 1024]}
        \cup {[text |-> PyStr(SizeText(c)), around |-> SizeBytes(c)] : c \in SizeCases}
        \cup {[text |-> PyStr(t), around |-> 1024] : t \in MalformedSizeTexts}

File(size) == [size |-> size]

FilesAround(n) ==
    {Absent, Present(<<>>), Present(<<File(PyInt(n))>>),
     Present(<<File(PyInt(n)), File(PyStr(<<"1">>))>>)}

NameA == PyStr(<<"a">>)
NameB == PyStr(<<"b">>)
ReleaseR == PyStr(<<"r">>)

SizeVersions(n) ==
    {MkVersion(nr[1], nr[2], f, T_2023_01_01, Absent) :
        nr \in {<<NameA, Absent>>, <<NameA, Present(ReleaseR)>>, <<NameB, Present(ReleaseR)>>},
        f \in FilesAround(n)}

InitSize ==
    /\ \E si \in SizeInputs :
         /\ \E vn \in {None, NameA} : \E rn \in {None, ReleaseR} :
                args = [NoArgs EXCEPT !.version_name = vn,
                                      !.version_release_name = rn,
                                      !.version_size_above = si.text]
         /\ workload_versions \in SeqsUpTo(SizeVersions(si.around), MaxFilteredVersions)
    /\ fv_result = Pending
    /\ OthersIdle("versions")

SpecSize == InitSize /\ [][NextVersions]_vars

Timestamps == {T_2023_01_01, T_2023_05_31_Last, T_2023_06_01, T_2023_06_01_First}

PositionName(i) == PyStr(<<"v", DigitChar(i)>>)

\* Lists of n versions named by position, with every choice of timestamps
DatedVersionLists(n, createds, updateds) ==
    {[i \in 1..n |-> MkVersion(PositionName(i), Absent, Absent, c[i], u[i])] :
        c \in [1..n -> createds], u \in [1..n -> updateds]}

DateTexts == {<<2023, 6, 1>>, <<2023, 1, 1>>}

InitDate ==
    /\ \E d \in DateTexts : args = [NoArgs EXCEPT !.version_date_older_than = PyStr(d)]
    /\ \E n \in 0..MaxFilteredVersions :
         workload_versions \in
             DatedVersionLists(n, Timestamps, {Absent} \cup {Present(t) : t \in Timestamps})
    /\ fv_result = Pending
    /\ OthersIdle("versions")

SpecDate == InitDate /\ [][NextVersions]_vars

MaxIndex == 4    \* largest index or slice bound of a version_list_filter

\* int -> text, with its sign
IntText(i) == IF i < 0 THEN <<"-">> \o Decimal(0 - i) ELSE Decimal(i)

\* a slice bound: None (omitted) or an int
SliceBounds == {None} \cup {PyInt(i) : i \in (0 - MaxIndex)..MaxIndex}
BoundText(b) == IF IsNone(b) THEN <<>> ELSE IntText(b.v)
SliceText(start, end) == BoundText(start) \o <<":">> \o BoundText(end)

MalformedListFilters ==
    {<<"1", ":", "2", ":", "3">>, <<":", ":">>, <<"a">>, <<"1", ":", "b">>}

ListFilterTexts ==
    {SliceText(b, e) : b \in SliceBounds, e \in SliceBounds}
        \cup {IntText(i) : i \in (0 - MaxIndex)..MaxIndex}
        \cup MalformedListFilters

InitRange ==
    /\ \E t \in ListFilterTexts : \E vn \in {None, PositionName(1)} :
         args = [NoArgs EXCEPT !.version_list_filter = PyStr(t), !.version_name = vn]
    /\ \E n \in 0..MaxRangeVersions :
         workload_versions \in
             DatedVersionLists(n, {T_2023_01_01, T_2023_05_31_Last, T_2023_06_01}, {Absent})
    /\ fv_result = Pending
    /\ OthersIdle("versions")

SpecRange == InitRange /\ [][NextVersions]_vars

(* Inputs of the date filter with versions that carry updatedAt only *)

\* a version as the management system reports it after a change: updatedAt,
\* with or without createdAt
UpdatedVersions(name) ==
    {MkVersion(name, Absent, Absent, c, u) :
        c \in {T_2023_01_01, T_2023_06_01},
        u \in {Absent} \cup {Present(t) : t \in Timestamps}}
        \cup {[k \in {"name", "updatedAt"} |->
                  MkVersion(name, Absent, Absent, T_2023_01_01, Present(t))[k]] :
              t \in Timestamps}

InitUpdatedOnly ==
    /\ \E d \in DateTexts : args = [NoArgs EXCEPT !.version_date_older_than = PyStr(d)]
    /\ \E n \in 0..MaxFilteredVersions :
         workload_versions \in
             {vs \in [1..n -> UNION {UpdatedVersions(PositionName(i)) : i \in 1..n}] :
                 \A i \in 1..n : vs[i]["name"] = PositionName(i)}
    /\ fv_result = Pending
    /\ OthersIdle("versions")

SpecUpdatedOnly == InitUpdatedOnly /\ [][NextVersions]_vars

(* Inputs with several filters at once *)

BigFile == Present(<<File(PyInt(6))>>)
SmallFile == Present(<<File(PyInt(5))>>)
Above5B == PyStr(<<"5", "B">>)
Before_2023_06_01 == PyStr(<<2023, 6, 1>>)

PipelineBounds == {None, PyInt(0), PyInt(1), PyInt(0 - 1)}

PipelineListFilters ==
    {None}
        \cup {PyStr(SliceText(b, e)) : b \in PipelineBounds, e \in PipelineBounds}
        \cup {PyStr(IntText(i)) : i \in {0 - 1, 0, 1}}

PipelineVersionLists(n) ==
    {[i \in 1..n |-> MkVersion(PositionName(i), Absent, f[i], c[i], Absent)] :
        f \in [1..n -> {BigFile, SmallFile}],
        c \in [1..n -> {T_2023_01_01, T_2023_05_31_Last, T_2023_06_01}]}

InitPipeline ==
    /\ \E vn \in {None, PositionName(1)} : \E size \in {None, Above5B} :
         \E date \in {None, Before_2023_06_01} : \E range \in PipelineListFilters :
            args = [NoArgs EXCEPT !.version_name = vn,
                                  !.version_size_above = size,
                                  !.version_date_older_than = date,
                                  !.version_list_filter = range]
    /\ \E n \in 0..MaxFilteredVersions : workload_versions \in PipelineVersionLists(n)
    /\ fv_result = Pending
    /\ OthersIdle("versions")

SpecPipeline == InitPipeline /\ [][NextVersions]_vars

-----------------------------------------------------------------------------
(* nodes_remote_connections: get_existing_remotes, find_in_remotes_list and   *)
(* the add action                                                             *)

\* A remote connection is a dict: a function from its keys to values.
EmptyDict == <<>>

\* del d[key] for the keys of a set
WithoutKeys(d, keys) == [k \in DOMAIN d \ keys |-> d[k]]

\* line 92
StrippedKeys == {"uniqueConnectionRequestNo", "workloadId", "versionId", "serialNumber"}

\* node_handle.get_remote_connections() of the node with a serial number
MsGetRemoteConnections(serial) == ms_remotes[serial]

\* lines 91-95: the observed connections of one node, without the stripped keys
ObservedRemotes(node) ==
    LET remotes == MsGetRemoteConnections(node.serialNumber)
    IN  [i \in 1..Len(remotes) |-> WithoutKeys(remotes[i], StrippedKeys)]

\* lines 89-91: one get_remote_connections call per node of the file, in order
FetchCalls(ns) ==
    [i \in 1..Len(ns) |-> [call |-> "get_remote_connections", serial |-> ns[i].serialNumber]]

\* lines 87-98: a dict keyed by node name, holding only non-empty lists; a
\* later node of the same name replaces the entry of an earlier one
GetExistingRemotes(ns) ==
    LET holders(name) ==
            {i \in 1..Len(ns) : ns[i].name = name /\ ObservedRemotes(ns[i]) # <<>>}
        last(name) == CHOOSE i \in holders(name) : \A j \in holders(name) : j <= i
    IN  [name \in {ns[i].name : i \in {j \in 1..Len(ns) : ObservedRemotes(ns[j]) # <<>>}} |->
            ObservedRemotes(ns[last(name)])]

\* a match that needs the two dicts to be equal, extra keys not allowed
RemoteMatches_FullEquality(remote_element, remote_compare) ==
    /\ DOMAIN remote_element = DOMAIN remote_compare
    /\ \A key \in DOMAIN remote_element : remote_element[key] = remote_compare[key]

\* lines 106-111: every key of remote_element is in remote_compare, equal
RemoteMatches(remote_element, remote_compare) ==
    \A key \in DOMAIN remote_element :
        key \in DOMAIN remote_compare /\ remote_element[key] = remote_compare[key]

\* a search that hands back the element searched for instead of the one found
FindInRemotesList_ReturnsSearched(remote_element, remotes_list) ==
    IF \E i \in 1..Len(remotes_list) : RemoteMatches(remote_element, remotes_list[i])
    THEN remote_element
    ELSE EmptyDict

\* lines 101-117: the first element of the list that matches, or {}
FindInRemotesList(remote_element, remotes_list) ==
    IF remotes_list = <<>> THEN EmptyDict
    ELSE IF \E i \in 1..Len(remotes_list) : RemoteMatches(remote_element, remotes_list[i])
         THEN remotes_list[CHOOSE i \in 1..Len(remotes_list) :
                  /\ RemoteMatches(remote_element, remotes_list[i])
                  /\ \A j \in 1..(i - 1) : ~RemoteMatches(remote_element, remotes_list[j])]
         ELSE EmptyDict

\* the truth value of a dict
DictTruthy(d) == DOMAIN d # {}

\* Ordered dicts (insertion order) are sequences of [key, value]
DictHas(d, key) == \E i \in 1..Len(d) : d[i].key = key
DictGet(d, key) == d[CHOOSE i \in 1..Len(d) : d[i].key = key].value

\* a dict that gets a key although there is nothing to append
DictExtend_KeyForEmptyList(d, key, items) ==
    IF DictHas(d, key)
    THEN [i \in 1..Len(d) |->
             IF d[i].key = key THEN [key |-> key, value |-> d[i].value \o items]
             ELSE d[i]]
    ELSE Append(d, [key |-> key, value |-> items])

\* lines 204-206 for the tunnels of one node: d[key] is created when the first
\* tunnel is appended
DictExtend(d, key, items) ==
    IF items = <<>> THEN d
    ELSE IF DictHas(d, key)
         THEN [i \in 1..Len(d) |->
                  IF d[i].key = key THEN [key |-> key, value |-> d[i].value \o items]
                  ELSE d[i]]
         ELSE Append(d, [key |-> key, value |-> items])

\* lines 199-200: existing_remotes[node_name] = [] for the nodes not in it
WithEmptyLists(existing, ns) ==
    [name \in DOMAIN existing \cup {ns[i].name : i \in 1..Len(ns)} |->
        IF name \in DOMAIN existing THEN existing[name] ELSE <<>>]

\* lines 202-206: the tunnels of the file not found among a node's entry
NotFound(existing, node_name, tunnels) ==
    SelectSeq(tunnels, LAMBDA tunnel :
        ~DictTruthy(FindInRemotesList(tunnel, existing[node_name])))

\* lines 196-206
RECURSIVE TunnelsToAdd(_, _, _)
TunnelsToAdd(ns, existing, tunnels) ==
    IF ns = <<>> THEN <<>>
    ELSE LET node == ns[Len(ns)]
         IN  DictExtend(TunnelsToAdd(SubSeq(ns, 1, Len(ns) - 1), existing, tunnels),
                        node.name, NotFound(existing, node.name, tunnels))

\* lines 191-207: fetch the observed connections of every node, compute
\* tunnels_to_add and report it
RcAddPlan ==
    /\ rc_pc = "add"
    /\ existing_remotes' = WithEmptyLists(GetExistingRemotes(nodes), nodes)
    /\ tunnels_to_add' = TunnelsToAdd(nodes, existing_remotes', file_remotes)
    /\ rc_log' = Append(rc_log, [message |-> "Adding following remote_connections",
                                 data |-> tunnels_to_add'])
    /\ rc_i' = 0
    /\ rc_pc' = "add_apply"
    /\ ms_calls' = ms_calls \o FetchCalls(nodes)
    /\ UNCHANGED <<rc_args, rc_run, nodes, file_remotes, ms_remotes, tunnels_to_remove>>

\* line 209: the serial number of the first node of the file with the name
SerialOfName(ns, node_name) ==
    ns[CHOOSE i \in 1..Len(ns) :
          ns[i].name = node_name /\ \A j \in 1..(i - 1) : ns[j].name # node_name].serialNumber

\* The management system stores every added connection with the supplied
\* keys and an identifier of its own
MsWithAdded(serial, remote_connection) ==
    [ms_remotes EXCEPT ![serial] =
        @ \o [i \in 1..Len(remote_connection) |->
                 ("_id" :> "new") @@ remote_connection[i]]]

\* lines 208-211: one iteration, one add_remote_connection call
RcAddApply ==
    /\ rc_pc = "add_apply"
    /\ rc_i < Len(tunnels_to_add)
    /\ LET item == tunnels_to_add[rc_i + 1]
           serial_number == SerialOfName(nodes, item.key)
       IN  /\ ms_calls' = Append(ms_calls, [call |-> "add_remote_connection",
                                            serial |-> serial_number,
                                            remote_connection |-> item.value])
           /\ ms_remotes' = MsWithAdded(serial_number, item.value)
    /\ rc_i' = rc_i + 1
    /\ UNCHANGED <<rc_args, rc_run, nodes, file_remotes, existing_remotes, tunnels_to_add, tunnels_to_remove,
                   rc_pc, rc_log>>

\* the loop of line 208 is exhausted
RcAddDone ==
    /\ rc_pc = "add_apply"
    /\ rc_i = Len(tunnels_to_add)
    /\ rc_pc' = "done"
    /\ UNCHANGED <<rc_args, rc_run, nodes, file_remotes, ms_remotes, existing_remotes, tunnels_to_add,
                   tunnels_to_remove, rc_i, rc_log, ms_calls>>

(* nodes_remote_connections: the delete action *)

\* lines 223-228 for one node: the observed connection found for each tunnel
\* of the file, in file order; a tunnel without one adds nothing
RECURSIVE FoundElements(_, _)
FoundElements(remotes_list, tunnels) ==
    IF tunnels = <<>> THEN <<>>
    ELSE LET remote_element == FindInRemotesList(Head(tunnels), remotes_list)
         IN  (IF DictTruthy(remote_element) THEN <<remote_element>> ELSE <<>>)
                 \o FoundElements(remotes_list, Tail(tunnels))

\* lines 217-228: nodes without an entry in existing_remotes are passed over
RECURSIVE TunnelsToRemove(_, _, _)
TunnelsToRemove(ns, existing, tunnels) ==
    IF ns = <<>> THEN <<>>
    ELSE LET node == ns[Len(ns)]
             rest == TunnelsToRemove(SubSeq(ns, 1, Len(ns) - 1), existing, tunnels)
         IN  IF node.name \notin DOMAIN existing THEN rest
             ELSE DictExtend(rest, node.name, FoundElements(existing[node.name], tunnels))

\* lines 213-229: fetch the observed connections of every node, compute
\* tunnels_to_remove and report it
RcDeletePlan ==
    /\ rc_pc = "delete"
    /\ existing_remotes' = GetExistingRemotes(nodes)
    /\ tunnels_to_remove' = TunnelsToRemove(nodes, existing_remotes', file_remotes)
    /\ rc_log' = Append(rc_log, [message |-> "Removing following remote connections",
                                 data |-> tunnels_to_remove'])
    /\ rc_i' = 0
    /\ rc_pc' = "delete_apply"
    /\ ms_calls' = ms_calls \o FetchCalls(nodes)
    /\ UNCHANGED <<rc_args, rc_run, nodes, file_remotes, ms_remotes, tunnels_to_add>>

\* The management system drops the connections whose identifier is passed
MsWithRemoved(serial, remote_connection) ==
    LET ids == {remote_connection[i]["_id"] : i \in 1..Len(remote_connection)}
    IN  [ms_remotes EXCEPT ![serial] = SelectSeq(@, LAMBDA remote : remote["_id"] \notin ids)]

\* lines 230-233: one iteration, one remove_remote_connection call
RcDeleteApply ==
    /\ rc_pc = "delete_apply"
    /\ rc_i < Len(tunnels_to_remove)
    /\ LET item == tunnels_to_remove[rc_i + 1]
           serial_number == SerialOfName(nodes, item.key)
       IN  /\ ms_calls' = Append(ms_calls, [call |-> "remove_remote_connection",
                                            serial |-> serial_number,
                                            remote_connection |-> item.value])
           /\ ms_remotes' = MsWithRemoved(serial_number, item.value)
    /\ rc_i' = rc_i + 1
    /\ UNCHANGED <<rc_args, rc_run, nodes, file_remotes, existing_remotes, tunnels_to_add, tunnels_to_remove,
                   rc_pc, rc_log>>

\* the loop of line 230 is exhausted
RcDeleteDone ==
    /\ rc_pc = "delete_apply"
    /\ rc_i = Len(tunnels_to_remove)
    /\ rc_pc' = "done"
    /\ UNCHANGED <<rc_args, rc_run, nodes, file_remotes, ms_remotes, existing_remotes, tunnels_to_add,
                   tunnels_to_remove, rc_i, rc_log, ms_calls>>

(* nodes_remote_connections run a second time *)

\* The command is started again with the same arguments and the same files:
\* lines 190-192 and 213-215 read the files and fetch the observed state anew,
\* the management system holds what the first run left
RcRunAgain ==
    /\ rc_pc = "done"
    /\ rc_run = 1
    /\ rc_run' = 2
    /\ rc_pc' = rc_args
    /\ existing_remotes' = <<>>
    /\ tunnels_to_add' = <<>>
    /\ tunnels_to_remove' = <<>>
    /\ rc_i' = 0
    /\ UNCHANGED <<rc_args, nodes, file_remotes, ms_remotes, rc_log, ms_calls>>

(* Inputs of nodes_remote_connections *)

MaxNodes == 2          \* nodes of the nodes file
MaxFileRemotes == 2    \* entries of the remotes file

NodeOf(i) == [name |-> <<"n", i>>, serialNumber |-> <<"s", i>>]

Tunnel3333 == [name |-> "LocalUi", port |-> 3333]
Tunnel4444 == [name |-> "LocalUi", port |-> 4444]
NameOnlyLocalUi == [name |-> "LocalUi"]
ScreenRdp == [name |-> "screen_test", port |-> 3389, type |-> "SCREEN"]

DesiredEntries == {Tunnel3333, Tunnel4444, NameOnlyLocalUi, ScreenRdp}

Observed(id, entry, serial) == ("_id" :> id) @@ ("serialNumber" :> serial) @@ entry

\* What the management system may hold for the node with a serial number
ObservedLists(serial) ==
    <<<<>>,
      <<Observed("id1", Tunnel3333, serial)>>,
      <<Observed("id2", Tunnel4444, serial), Observed("id1", Tunnel3333, serial)>>,
      <<Observed("id3", ScreenRdp, serial)>>,
      <<Observed("id4", [name |-> "screen_test", port |-> 3389], serial)>>>>

InitRemotes ==
    /\ \E n \in 0..MaxNodes :
         /\ nodes = [i \in 1..n |-> NodeOf(i)]
         /\ \E choice \in [1..n -> 1..5] :
              ms_remotes = [serial \in {NodeOf(i).serialNumber : i \in 1..n} |->
                               ObservedLists(serial)[choice[serial[2]]]]
    /\ file_remotes \in SeqsUpTo(DesiredEntries, MaxFileRemotes)
    /\ existing_remotes = <<>>
    /\ tunnels_to_add = <<>>
    /\ tunnels_to_remove = <<>>
    /\ rc_args \in {"add", "delete"}
    /\ rc_pc = rc_args
    /\ rc_run = 1
    /\ rc_i = 0
    /\ rc_log = <<>>
    /\ ms_calls = <<>>
    /\ OthersIdle("remotes")

NextRemotes ==
    \/ (RcAddPlan /\ OthersUnchanged("remotes"))
    \/ (RcAddApply /\ OthersUnchanged("remotes"))
    \/ (RcAddDone /\ OthersUnchanged("remotes"))
    \/ (RcDeletePlan /\ OthersUnchanged("remotes"))
    \/ (RcDeleteApply /\ OthersUnchanged("remotes"))
    \/ (RcDeleteDone /\ OthersUnchanged("remotes"))

SpecRemotes == InitRemotes /\ [][NextRemotes]_vars

\* a nodes file in which every node bears the name of the first one
InitSameName ==
    /\ \E n \in 1..MaxNodes :
         /\ nodes = [i \in 1..n |-> [NodeOf(i) EXCEPT !.name = NodeOf(1).name]]
         /\ \E choice \in [1..n -> 1..5] :
              ms_remotes = [serial \in {NodeOf(i).serialNumber : i \in 1..n} |->
                               ObservedLists(serial)[choice[serial[2]]]]
    /\ file_remotes \in SeqsUpTo(DesiredEntries, MaxFileRemotes)
    /\ existing_remotes = <<>>
    /\ tunnels_to_add = <<>>
    /\ tunnels_to_remove = <<>>
    /\ rc_args \in {"add", "delete"}
    /\ rc_pc = rc_args
    /\ rc_run = 1
    /\ rc_i = 0
    /\ rc_log = <<>>
    /\ ms_calls = <<>>
    /\ OthersIdle("remotes")

SpecSameName == InitSameName /\ [][NextRemotes]_vars

NextTwoRuns ==
    \/ NextRemotes
    \/ (RcRunAgain /\ OthersUnchanged("remotes"))

SpecTwoRuns == InitRemotes /\ [][NextTwoRuns]_vars

-----------------------------------------------------------------------------
(* labels: the add and delete actions *)

MaxLabels == 2    \* labels of the labels file

\* The management system's answer to create_label of a label it holds and to
\* delete of a label it does not hold is the client library's: the call may
\* pass without effect or raise
MsOutcomes(expected) == IF expected THEN {"ok"} ELSE {"ok", "raised"}

\* lines 84-86: one iteration of the add loop, one create_label call
LabelsAddStep ==
    /\ lb_pc = "add"
    /\ lb_i < Len(labels_file)
    /\ LET label == labels_file[lb_i + 1]
       IN  /\ ms_label_calls' = Append(ms_label_calls,
                                       [call |-> "create_label",
                                        key |-> label.key, value |-> label.value])
           /\ \E outcome \in MsOutcomes(label \notin ms_labels) :
                IF outcome = "ok"
                THEN ms_labels' = ms_labels \cup {label} /\ lb_pc' = lb_pc
                ELSE ms_labels' = ms_labels /\ lb_pc' = "raised"
    /\ lb_i' = lb_i + 1
    /\ UNCHANGED labels_file

\* lines 88-90: one iteration of the delete loop, one delete call
LabelsDeleteStep ==
    /\ lb_pc = "delete"
    /\ lb_i < Len(labels_file)
    /\ LET label == labels_file[lb_i + 1]
       IN  /\ ms_label_calls' = Append(ms_label_calls,
                                       [call |-> "delete",
                                        key |-> label.key, value |-> label.value])
           /\ \E outcome \in MsOutcomes(label \in ms_labels) :
                IF outcome = "ok"
                THEN ms_labels' = ms_labels \ {label} /\ lb_pc' = lb_pc
                ELSE ms_labels' = ms_labels /\ lb_pc' = "raised"
    /\ lb_i' = lb_i + 1
    /\ UNCHANGED labels_file

\* the loop of line 85 or of line 89 is exhausted
LabelsDone ==
    /\ lb_pc \in {"add", "delete"}
    /\ lb_i = Len(labels_file)
    /\ lb_pc' = "done"
    /\ UNCHANGED <<labels_file, ms_labels, lb_i, ms_label_calls>>

(* Inputs of labels *)

Label(key, value) == [key |-> key, value |-> value]

LabelChoices == {Label("site", "a"), Label("site", "b"), Label("line", "a")}

InitLabels ==
    /\ labels_file \in SeqsUpTo(LabelChoices, MaxLabels)
    /\ ms_labels \in SUBSET LabelChoices
    /\ lb_pc \in {"add", "delete"}
    /\ lb_i = 0
    /\ ms_label_calls = <<>>
    /\ OthersIdle("labels")

NextLabels ==
    \/ (LabelsAddStep /\ OthersUnchanged("labels"))
    \/ (LabelsDeleteStep /\ OthersUnchanged("labels"))
    \/ (LabelsDone /\ OthersUnchanged("labels"))

SpecLabels == InitLabels /\ [][NextLabels]_vars

-----------------------------------------------------------------------------
(* ms_workloads: the delete action, run as a command of its own *)

\* What delete_workload_version may do: the version is deleted, or the
\* client library raises ValueError, or it raises an error of another class;
\* a version the management system does not hold cannot be deleted
DeleteOutcomes(workload_name, version_name) ==
    IF version_name \in ms_versions[workload_name]
    THEN {"deleted", "ValueError", "CheckStatusCodeError"}
    ELSE {"ValueError", "CheckStatusCodeError"}

\* _get_versions() of WorkloadVersion(workload["name"])
GetVersions(workload_name) == ms_versions[workload_name]

\* lines 412-419: one iteration of the inner loop; ValueError is caught and
\* logged as a warning, any other error leaves the handler and is logged by
\* main (__init__.py lines 375-406)
DeleteWorkloadVersion ==
    /\ wd_pc = "delete"
    /\ wd_i < Len(workloads_file)
    /\ LET workload == workloads_file[wd_i + 1]
       IN  /\ wd_j < Len(workload.versions)
           /\ LET version == workload.versions[wd_j + 1]
              IN  \E outcome \in DeleteOutcomes(workload.name, version) :
                     /\ wd_calls' = Append(wd_calls, [call |-> "delete_workload_version",
                                                      workload |-> workload.name,
                                                      version |-> version,
                                                      outcome |-> outcome])
                     /\ ms_versions' =
                            IF outcome = "deleted"
                            THEN [ms_versions EXCEPT ![workload.name] = @ \ {version}]
                            ELSE ms_versions
                     /\ wd_log' =
                            IF outcome = "ValueError"
                            THEN Append(wd_log, [level |-> "warning",
                                                 message |-> "Workload version cannot be removed",
                                                 workload |-> workload.name,
                                                 version |-> version])
                            ELSE IF outcome = "CheckStatusCodeError"
                            THEN Append(wd_log, [level |-> "error",
                                                 message |-> "An error occured: ",
                                                 workload |-> workload.name,
                                                 version |-> version])
                            ELSE wd_log
                     /\ wd_pc' = IF outcome = "CheckStatusCodeError" THEN "raised" ELSE wd_pc
    /\ wd_j' = wd_j + 1
    /\ UNCHANGED <<workloads_file, wd_i>>

\* line 421: not wl_version._get_versions()
NoVersionRemains(workload_name) ==
    GetVersions(workload_name) = {}

\* lines 420-423: the inner loop is exhausted; the workload is deleted when
\* the management system reports no version of it
DeleteWorkloadIfEmpty ==
    /\ wd_pc = "delete"
    /\ wd_i < Len(workloads_file)
    /\ LET workload == workloads_file[wd_i + 1]
       IN  /\ wd_j = Len(workload.versions)
           /\ IF NoVersionRemains(workload.name)
              THEN /\ wd_calls' = Append(wd_calls, [call |-> "delete_workload",
                                                    workload |-> workload.name,
                                                    version |-> "",
                                                    outcome |-> "deleted"])
                   /\ ms_versions' = [name \in DOMAIN ms_versions \ {workload.name} |->
                                         ms_versions[name]]
              ELSE UNCHANGED <<wd_calls, ms_versions>>
    /\ wd_i' = wd_i + 1
    /\ wd_j' = 0
    /\ UNCHANGED <<workloads_file, wd_pc, wd_log>>

\* the loop of line 411 is exhausted
DeleteDone ==
    /\ wd_pc = "delete"
    /\ wd_i = Len(workloads_file)
    /\ wd_pc' = "done"
    /\ UNCHANGED <<workloads_file, ms_versions, wd_i, wd_j, wd_log, wd_calls>>

(* Inputs of the delete action *)

\* the workloads of the file, in file order
WorkloadNames == <<"w1", "w2">>

\* the versions a workload of the file may list
ListedVersions == {<<>>, <<"v1">>, <<"v2">>, <<"v1", "v2">>, <<"v2", "v1">>}

\* the versions the management system may hold of a workload: listed ones
\* and one the file does not list
HeldVersions == SUBSET {"v1", "v2", "v3"}

InitDelete ==
    /\ \E n \in 0..Len(WorkloadNames) :
         /\ \E listed \in [1..n -> ListedVersions] :
              workloads_file = [i \in 1..n |-> [name |-> WorkloadNames[i], versions |-> listed[i]]]
         /\ ms_versions \in [{WorkloadNames[i] : i \in 1..n} -> HeldVersions]
    /\ wd_pc = "delete"
    /\ wd_i = 0
    /\ wd_j = 0
    /\ wd_log = <<>>
    /\ wd_calls = <<>>
    /\ OthersIdle("delete")

NextDelete ==
    \/ (DeleteWorkloadVersion /\ OthersUnchanged("delete"))
    \/ (DeleteWorkloadIfEmpty /\ OthersUnchanged("delete"))
    \/ (DeleteDone /\ OthersUnchanged("delete"))

SpecDelete == InitDelete /\ [][NextDelete]_vars

-----------------------------------------------------------------------------
(* nodes_reboot *)

\* str.lower() of one character and of a string (a sequence of characters)
LowerChar(c) ==
    CASE c = "Y" -> "y"
      [] c = "N" -> "n"
      [] c = "E" -> "e"
      [] c = "S" -> "s"
      [] OTHER -> c

Lower(s) == [i \in 1..Len(s) |-> LowerChar(s[i])]

\* a confirmation that takes the lower-case letter only
Confirmed_CaseSensitive(response) == response = <<"y">>

\* line 61, negated: the node is rebooted when response.lower() equals "y"
Confirmed(response) == Lower(response) = <<"y">>

\* where an iteration of the loop of line 57 starts (line 59)
LoopEntry == IF rb_yes THEN "reboot" ELSE "prompt"

\* lines 59-63: the prompt of one node and its answer
RebootPrompt ==
    /\ rb_pc = "prompt"
    /\ rb_i < Len(rb_nodes)
    /\ LET node == rb_nodes[rb_i + 1]
       IN  \E response \in {<<"y">>, <<"Y">>, <<"n">>, <<"y", "e", "s">>, <<>>} :
              /\ rb_trace' = Append(rb_trace, [event |-> "prompt", node |-> node.name,
                                              detail |-> response])
              /\ IF Confirmed(response)
                 THEN /\ rb_pc' = "reboot"
                      /\ UNCHANGED <<rb_i, rb_log>>
                 ELSE /\ rb_log' = Append(rb_log, [level |-> "info", message |-> "Skipping node",
                                                  node |-> node.name])
                      /\ rb_i' = rb_i + 1
                      /\ rb_pc' = LoopEntry
    /\ UNCHANGED <<rb_nodes, rb_yes>>

\* What node_handle.reboot() may do: return, raise CheckStatusCodeError with
\* the conflict status or with another status, or raise an error of another class
RebootOutcomes == {"ok", "conflict", "status_error", "error"}

\* a conflict that ends the command
AfterReboot_ConflictEndsLoop(outcome, node_name) ==
    IF outcome \in {"conflict", "error"} THEN [pc |-> "raised", logged |-> <<>>]
    ELSE [pc |-> LoopEntry, logged |-> <<>>]

\* lines 67-71: where the handler goes after reboot() and what it logs; only
\* CheckStatusCodeError is caught, and only the conflict status is logged
AfterReboot(outcome, node_name) ==
    IF outcome = "error" THEN [pc |-> "raised", logged |-> <<>>]
    ELSE IF outcome = "conflict"
         THEN [pc |-> LoopEntry,
               logged |-> <<[level |-> "warning",
                             message |-> "Node is currently offline and cannot be rebooted",
                             node |-> node_name]>>]
         ELSE [pc |-> LoopEntry, logged |-> <<>>]

\* lines 65-71: the reboot of one node
RebootNode ==
    /\ rb_pc = "reboot"
    /\ rb_i < Len(rb_nodes)
    /\ LET node == rb_nodes[rb_i + 1]
       IN  \E outcome \in RebootOutcomes :
              /\ rb_trace' = Append(rb_trace, [event |-> "reboot", node |-> node.name,
                                              detail |-> outcome])
              /\ rb_log' = rb_log
                    \o <<[level |-> "info", message |-> "Trigger command to reboot node",
                          node |-> node.name]>>
                    \o AfterReboot(outcome, node.name).logged
              /\ rb_pc' = AfterReboot(outcome, node.name).pc
    /\ rb_i' = rb_i + 1
    /\ UNCHANGED <<rb_nodes, rb_yes>>

\* the loop of line 57 is exhausted
RebootDone ==
    /\ rb_pc \in {"prompt", "reboot"}
    /\ rb_i = Len(rb_nodes)
    /\ rb_pc' = "done"
    /\ UNCHANGED <<rb_nodes, rb_yes, rb_i, rb_log, rb_trace>>

InitReboot ==
    /\ \E n \in 0..MaxNodes : rb_nodes = [i \in 1..n |-> NodeOf(i)]
    /\ rb_yes \in BOOLEAN
    /\ rb_pc = LoopEntry
    /\ rb_i = 0
    /\ rb_log = <<>>
    /\ rb_trace = <<>>
    /\ OthersIdle("reboot")

NextReboot ==
    \/ (RebootPrompt /\ OthersUnchanged("reboot"))
    \/ (RebootNode /\ OthersUnchanged("reboot"))
    \/ (RebootDone /\ OthersUnchanged("reboot"))

SpecReboot == InitReboot /\ [][NextReboot]_vars

-----------------------------------------------------------------------------
(* The interactive session: NerveCLI(cmd.Cmd).cmdloop() as main runs it *)

MaxCommands == 3    \* lines entered in one session

\* the versions of the one workload the management system lists
CliVersions ==
    <<MkVersion(PositionName(1), Absent, Absent, T_2023_01_01, Absent),
      MkVersion(PositionName(2), Absent, Absent, T_2023_06_01, Absent)>>

\* the lines entered: ms_workloads --list with a version_list_filter, exit,
\* and a word that is no command
CliLines ==
    {[cmd |-> "ms_workloads", version_list_filter |-> PyStr(t)] :
        t \in {<<"0">>, <<"-", "1">>, <<"0", ":", "1">>, <<":">>, <<"5">>,
               <<"1", ":", "2", ":", "3">>, <<"a">>}}
        \cup {[cmd |-> "exit", version_list_filter |-> None],
              [cmd |-> "status", version_list_filter |-> None]}

\* __init__.py lines 155-179, ms_workloads.py lines 394 and 477-478: what
\* onecmd(line) does: do_exit returns True, an unknown word is logged by
\* default(), do_ms_workloads returns None or raises what filter_versions raises
OneCmd(line) ==
    IF line.cmd = "exit" THEN "stop"
    ELSE IF line.cmd = "ms_workloads"
         THEN LET result == FilterVersions(
                                CliVersions,
                                [NoArgs EXCEPT !.version_list_filter = line.version_list_filter])
              IN  IF result.status = "returned" THEN "returned" ELSE result.status
         ELSE "returned"

\* cmd.Cmd.cmdloop catches nothing and main (lines 410-414) catches
\* KeyboardInterrupt only: an exception of a sub-command ends the loop
AfterOneCmd(outcome) ==
    IF outcome = "stop" THEN "exited"
    ELSE IF outcome = "returned" THEN "prompt"
    ELSE "terminated"

\* one round of cmdloop: a line is read and run
CliCommand ==
    /\ cli_pc = "prompt"
    /\ Len(cli_history) < MaxCommands
    /\ \E line \in CliLines :
         /\ cli_history' = Append(cli_history, [line |-> line, outcome |-> OneCmd(line)])
         /\ cli_pc' = AfterOneCmd(OneCmd(line))

InitCli ==
    /\ cli_pc = "prompt"
    /\ cli_history = <<>>
    /\ OthersIdle("cli")

NextCli == CliCommand /\ OthersUnchanged("cli")

SpecCli == InitCli /\ [][NextCli]_vars

-----------------------------------------------------------------------------
(* utils.file_write, file_append and file_read on the nodes file, as          *)
(* nodes_list and the commands that take the nodes file use them              *)

\* The text of a file is a sequence of tokens: the brackets and commas of
\* JSON, the dash of a YAML block sequence item, "[]" for an empty YAML flow
\* sequence, and one token per node record.
IsRecordToken(token) == token \notin {"[", "]", ",", "-", "[]"}

\* json.dump(content, file, indent=4) of a list of records
RECURSIVE JsonItems(_)
JsonItems(content) ==
    IF content = <<>> THEN <<>>
    ELSE IF Len(content) = 1 THEN <<content[1]>>
    ELSE <<content[1], ",">> \o JsonItems(Tail(content))

JsonDump(content) == <<"[">> \o JsonItems(content) \o <<"]">>

\* the items between the brackets of one JSON array: [ok, v]
RECURSIVE JsonParseItems(_)
JsonParseItems(tokens) ==
    IF tokens = <<>> THEN [ok |-> TRUE, v |-> <<>>]
    ELSE IF ~IsRecordToken(tokens[1]) THEN [ok |-> FALSE, v |-> <<>>]
    ELSE IF Len(tokens) = 1 THEN [ok |-> TRUE, v |-> <<tokens[1]>>]
    ELSE IF tokens[2] # "," \/ Len(tokens) = 2 THEN [ok |-> FALSE, v |-> <<>>]
    ELSE LET rest == JsonParseItems(SubSeq(tokens, 3, Len(tokens)))
         IN  [ok |-> rest.ok, v |-> <<tokens[1]>> \o rest.v]

JSONDecodeError == "json.JSONDecodeError"
YAMLError == "yaml.YAMLError"

\* the position of the bracket that closes the array opened at position 1
FirstClose(tokens) ==
    CHOOSE i \in 1..Len(tokens) : tokens[i] = "]" /\ \A j \in 1..(i - 1) : tokens[j] # "]"

\* json.load(file): exactly one document; text after it is "Extra data"
JsonLoad(tokens) ==
    IF tokens = <<>> \/ tokens[1] # "[" \/ ~\E i \in 1..Len(tokens) : tokens[i] = "]"
    THEN Raises(JSONDecodeError)
    ELSE LET close == FirstClose(tokens)
             items == JsonParseItems(SubSeq(tokens, 2, close - 1))
         IN  IF ~items.ok \/ close < Len(tokens) THEN Raises(JSONDecodeError)
             ELSE Returns(items.v)

\* yaml.dump(content, file, indent=4, default_flow_style=False) of a list of
\* records: one block item per record, "[]" for the empty list
RECURSIVE YamlDump(_)
YamlDump(content) ==
    IF content = <<>> THEN <<"[]">>
    ELSE IF Len(content) = 1 THEN <<"-", content[1]>>
    ELSE <<"-", content[1]>> \o YamlDump(Tail(content))

\* the items of a block sequence: [ok, v]
RECURSIVE YamlParseBlock(_)
YamlParseBlock(tokens) ==
    IF tokens = <<>> THEN [ok |-> TRUE, v |-> <<>>]
    ELSE IF Len(tokens) < 2 \/ tokens[1] # "-" \/ ~IsRecordToken(tokens[2])
    THEN [ok |-> FALSE, v |-> <<>>]
    ELSE LET rest == YamlParseBlock(SubSeq(tokens, 3, Len(tokens)))
         IN  [ok |-> rest.ok, v |-> <<tokens[2]>> \o rest.v]

\* yaml.safe_load(file): None for an empty text, a flow sequence or a block
\* sequence; a text that mixes the two is no document
YamlSafeLoad(tokens) ==
    IF tokens = <<>> THEN Returns(None)
    ELSE IF tokens = <<"[]">> THEN Returns(<<>>)
    ELSE LET block == YamlParseBlock(tokens)
         IN  IF block.ok THEN Returns(block.v) ELSE Raises(YAMLError)

\* file_write, lines 84-90: the file is opened with "w"
FileWrite(ext, content) ==
    IF ext = ".json" THEN JsonDump(content) ELSE YamlDump(content)

\* file_append, lines 102-108: the file is opened with "a"
FileAppend(text, ext, content) ==
    text \o (IF ext = ".json" THEN JsonDump(content) ELSE YamlDump(content))

\* file_read, lines 122-127
FileRead(text, ext) ==
    IF ext = ".json" THEN JsonLoad(text) ELSE YamlSafeLoad(text)

\* nodes_list.py lines 279-280: nodes_list --add appends its output
NodesListAdd ==
    /\ nl_pc = "add"
    /\ file_text' = FileAppend(file_text, file_ext, output)
    /\ nl_pc' = "read"
    /\ UNCHANGED <<file_ext, stored, output, read_result>>

\* a command that takes the nodes file: nodes = file_read(work_dir, args.file)
ReadNodesFile ==
    /\ nl_pc = "read"
    /\ read_result' = FileRead(file_text, file_ext)
    /\ nl_pc' = "done"
    /\ UNCHANGED <<file_ext, file_text, stored, output>>

(* Inputs: a nodes file written by an earlier nodes_list, and the nodes listed now *)

StoredNodes == {"node_a", "node_b"}
ListedNodes == {"node_b", "node_c"}

InitFile ==
    /\ file_ext \in {".json", ".yaml"}
    /\ stored \in SeqsUpTo(StoredNodes, MaxNodes)
    /\ file_text = FileWrite(file_ext, stored)
    /\ output \in SeqsUpTo(ListedNodes, MaxNodes)
    /\ nl_pc = "add"
    /\ read_result = Pending
    /\ OthersIdle("file")

NextFile ==
    \/ (NodesListAdd /\ OthersUnchanged("file"))
    \/ (ReadNodesFile /\ OthersUnchanged("file"))

SpecFile == InitFile /\ [][NextFile]_vars

-----------------------------------------------------------------------------
(* nodes_list.find_path *)

\* The node tree: nested mappings (ordered, <<[key, value], ...>>), lists and
\* strings, each tagged with its type
Mapping(items) == [t |-> "dict", v |-> items]
PyList(items) == [t |-> "list", v |-> items]
Text(s) == [t |-> "str", v |-> s]
Item(k, x) == [key |-> k, value |-> x]

\* lines 43 and 48, `if result:`: None and the empty list are both falsy
PathTruthy(result) == result.t = "list" /\ result.v # <<>>

RECURSIVE FindPath(_, _, _)
RECURSIVE FindPathLoop(_, _, _, _)

\* lines 37-44 (a dict) and 46-49 (a list): the loop from the k-th item on,
\* line 51 when it is exhausted
FindPathLoop(data, node_name, path, k) ==
    IF k > Len(data.v) THEN None
    ELSE IF data.t = "dict"
         THEN LET key == data.v[k].key
                  value == data.v[k].value
                  new_path == Append(path, key)
              IN  IF key = "name" /\ value.t = "str" /\ value.v = node_name
                  THEN PyList(path)
                  ELSE LET result == FindPath(value, node_name, new_path)
                       IN  IF PathTruthy(result) THEN result
                           ELSE FindPathLoop(data, node_name, path, k + 1)
         ELSE LET result == FindPath(data.v[k], node_name, path)
              IN  IF PathTruthy(result) THEN result
                  ELSE FindPathLoop(data, node_name, path, k + 1)

\* lines 32-51
FindPath(data, node_name, path) ==
    IF data.t \in {"dict", "list"} THEN FindPathLoop(data, node_name, path, 1)
    ELSE None

\* "/".join(path) of lines 195 and 274: the keys with "/" between them
RECURSIVE JoinSlash(_)
JoinSlash(path) ==
    IF path = <<>> THEN <<>>
    ELSE IF Len(path) = 1 THEN <<path[1]>>
    ELSE <<path[1], "/">> \o JoinSlash(Tail(path))

JoinTypeError == "TypeError: can only join an iterable"

\* lines 193-195: node["path"] = find_path(node_pathes, node["name"]), then
\* "/".join(node["path"])
CallFindPath ==
    /\ fp_pc = "call"
    /\ fp_result' = FindPath(fp_data, fp_name, <<>>)
    /\ fp_joined' = IF fp_result'.t = "list"
                    THEN [status |-> "joined", text |-> JoinSlash(fp_result'.v)]
                    ELSE [status |-> JoinTypeError, text |-> <<>>]
    /\ fp_pc' = "returned"
    /\ UNCHANGED <<fp_data, fp_name>>

(* Inputs of find_path *)

MaxTreeItems == 2    \* items of a list of the node tree

TreeNodeNames == {"n1", "n2"}
FolderKeys == {"a", "b"}

\* the mapping of a node, and the one of a folder that has children
NodeMapping(name) == Mapping(<<Item("name", Text(name)), Item("type", Text("node"))>>)
FolderMapping(name, children) ==
    Mapping(<<Item("type", Text("folder")), Item("name", Text(name)),
              Item("children", children)>>)

NodeMappings == {NodeMapping(name) : name \in TreeNodeNames}

TreesOver(below) ==
    below
    \cup {PyList(items) : items \in SeqsUpTo(below, MaxTreeItems)}
    \cup {Mapping(<<Item(k, x)>>) : k \in FolderKeys, x \in below}
    \cup {Mapping(<<Item("a", x), Item("b", y)>>) : x \in below, y \in below}
    \cup {FolderMapping("f", x) : x \in below}

NodeTrees == TreesOver(TreesOver(NodeMappings))

InitPath ==
    /\ fp_data \in NodeTrees
    /\ fp_name \in TreeNodeNames
    /\ fp_pc = "call"
    /\ fp_result = <<>>
    /\ fp_joined = <<>>
    /\ OthersIdle("path")

NextPath == CallFindPath /\ OthersUnchanged("path")

SpecPath == InitPath /\ [][NextPath]_vars

-----------------------------------------------------------------------------
(* nodes_list *)

\* line 190: ",".join of "key=K/value=V" for the labels of the node
RECURSIVE LabelsText(_)
LabelsText(labels) ==
    IF labels = <<>> THEN <<>>
    ELSE LET one == <<"k", "e", "y", "=">> \o labels[1].key
                        \o <<"/", "v", "a", "l", "u", "e", "=">> \o labels[1].value
         IN  IF Len(labels) = 1 THEN one ELSE one \o <<",">> \o LabelsText(Tail(labels))

\* lines 171-191: the filters on the node's name, version, model and labels
PassesNodeFilters(node, a) ==
    /\ CheckFilterArg(a.node_name, node.name)
    /\ CheckFilterArg(a.node_version, node.currentFWVersion)
    /\ CheckFilterArg(a.node_model, node.model)
    /\ CheckFilterArg(a.node_labels, PyStr(LabelsText(node.labels)))

\* a workload filter that lets a workload pass when the filters before it did not
PassesWorkloadFilters_StatusAlone(wl, a) ==
    \/ /\ CheckFilterArg(a.workload_name, wl.device_name)
       /\ CheckFilterArg(a.workload_id, wl.workloadId)
       /\ CheckFilterArg(a.workload_version_id, wl.versionId)
       /\ CheckFilterArg(a.workload_type, wl.type)
       /\ CheckFilterArg(a.workload_status, wl.state)
       /\ CheckFilterArg(a.workload_version_name, wl.version_name)
    \/ /\ Truthy(a.workload_status)
       /\ CheckFilterArg(a.workload_status, wl.state)

\* lines 205-239: the filters a workload goes through, in the order of the
\* code; wl.state and wl.version_name are what lines 217-225 and 229-237 read
\* from the workload's service list
PassesWorkloadFilters(wl, a) ==
    /\ CheckFilterArg(a.workload_name, wl.device_name)
    /\ CheckFilterArg(a.workload_id, wl.workloadId)
    /\ CheckFilterArg(a.workload_version_id, wl.versionId)
    /\ CheckFilterArg(a.workload_type, wl.type)
    /\ CheckFilterArg(a.workload_status, wl.state)
    /\ CheckFilterArg(a.workload_version_name, wl.version_name)

\* lines 241-249
NodeWl(wl) ==
    [name |-> wl.device_name, type |-> wl.type, _id |-> wl.workloadId,
     version_id |-> wl.versionId, version_name |-> wl.version_name,
     state |-> wl.state, device_id |-> wl.id]

\* lines 203-250: node["workloads"] of an online node
RECURSIVE NodeWorkloads(_, _)
NodeWorkloads(wls, a) ==
    IF wls = <<>> THEN <<>>
    ELSE (IF PassesWorkloadFilters(Head(wls), a) THEN <<NodeWl(Head(wls))>> ELSE <<>>)
             \o NodeWorkloads(Tail(wls), a)

\* lines 254-261
WorkloadFilterGiven(a) ==
    \/ Truthy(a.workload_name)
    \/ Truthy(a.workload_id)
    \/ Truthy(a.workload_version_id)
    \/ Truthy(a.workload_type)
    \/ Truthy(a.workload_status)
    \/ Truthy(a.workload_version_name)

\* lines 180-203: the node as it is appended to the output
OutputNode(node, path, a) ==
    ("name" :> node.name) @@ ("serialNumber" :> node.serialNumber)
        @@ ("currentFWVersion" :> node.currentFWVersion)
        @@ ("connectionStatus" :> node.connectionStatus)
        @@ ("model" :> node.model) @@ ("labels" :> node.labels) @@ ("path" :> path)
        @@ (IF node.connectionStatus = "online"
            THEN ("workloads" :> NodeWorkloads(node.workloads, a))
            ELSE <<>>)

\* lines 171-278, the body of the loop for one node: "skip" for a continue,
\* "listed" with the node appended to output, "raised" when line 195 fails
ListNode(node, tree, a) ==
    IF ~PassesNodeFilters(node, a) THEN [kind |-> "skip"]
    ELSE LET path == FindPath(tree, node.name.v, <<>>)
         IN  IF path.t # "list" THEN [kind |-> "raised"]
             ELSE IF ~CheckFilterArg(a.node_path, PyStr(JoinSlash(path.v)))
                  THEN [kind |-> "skip"]
             ELSE IF a.node_connected /\ node.connectionStatus # "online"
                  THEN [kind |-> "skip"]
             ELSE IF /\ WorkloadFilterGiven(a)
                     /\ \/ node.connectionStatus # "online"
                        \/ NodeWorkloads(node.workloads, a) = <<>>
                  THEN [kind |-> "skip"]
             ELSE [kind |-> "listed", node |-> OutputNode(node, path.v, a)]

NodesListNode ==
    /\ ls_pc = "loop"
    /\ ls_i < Len(ls_nodes)
    /\ LET listed == ListNode(ls_nodes[ls_i + 1], node_pathes, ls_args)
       IN  /\ ls_pc' = IF listed.kind = "raised" THEN "raised" ELSE "loop"
           /\ ls_output' = IF listed.kind = "listed" THEN Append(ls_output, listed.node)
                           ELSE ls_output
    /\ ls_i' = ls_i + 1
    /\ UNCHANGED <<ls_nodes, node_pathes, ls_args>>

\* lines 279-282: the output is written when the loop is exhausted
NodesListWrite ==
    /\ ls_pc = "loop"
    /\ ls_i = Len(ls_nodes)
    /\ ls_pc' = "written"
    /\ UNCHANGED <<ls_nodes, node_pathes, ls_args, ls_i, ls_output>>

(* Inputs of nodes_list *)

MaxNodeWorkloads == 2    \* workloads of a node

WorkloadA ==
    [device_name |-> PyStr(<<"a">>), workloadId |-> PyStr(<<"1">>), versionId |-> PyStr(<<"1">>),
     type |-> PyStr(<<"v", "m">>), state |-> PyStr(<<"S", "T", "O", "P", "P", "E", "D">>),
     version_name |-> PyStr(<<"v">>), id |-> PyStr(<<"d", "1">>)]
WorkloadB ==
    [device_name |-> PyStr(<<"b">>), workloadId |-> PyStr(<<"2">>), versionId |-> PyStr(<<"1">>),
     type |-> PyStr(<<"v", "m">>), state |-> PyStr(<<"S", "T", "A", "R", "T", "E", "D">>),
     version_name |-> PyStr(<<"v">>), id |-> PyStr(<<"d", "2">>)]

\* what the management system reports for the i-th node: an offline node, or
\* an online one with its workloads
ListedNodeName(i) == PyStr(<<"n", DigitChar(i)>>)
MsNode(i, status, workloads) ==
    [name |-> ListedNodeName(i), serialNumber |-> PyStr(<<"s", DigitChar(i)>>),
     currentFWVersion |-> PyStr(<<"2">>), connectionStatus |-> status,
     model |-> PyStr(<<"m">>), labels |-> <<>>, workloads |-> workloads]
MsNodeChoices(i) ==
    {MsNode(i, "offline", <<>>)}
        \cup {MsNode(i, "online", wls) : wls \in SeqsUpTo({WorkloadA, WorkloadB}, MaxNodeWorkloads)}

\* the tree: the first node in the list of the root folder "r", the others in
\* the list of its sub-folder "f"
TreeOf(n) ==
    LET entry(i) == Mapping(<<Item("name", ListedNodeName(i)), Item("type", PyStr(<<"n">>))>>)
        sub == Mapping(<<Item("f", PyList([i \in 1..(n - 1) |-> entry(i + 1)]))>>)
    IN  Mapping(<<Item("r", PyList(IF n = 0 THEN <<sub>> ELSE <<entry(1), sub>>))>>)

ListArgs ==
    [node_name : {None, PyStr(<<"n", "2">>)},
     node_version : {None}, node_model : {None}, node_labels : {None},
     node_path : {None, PyStr(<<"r">>)},
     node_connected : BOOLEAN,
     workload_name : {None, PyStr(<<"a">>), PyStr(RegexPrefix \o <<".">>)},
     workload_id : {None}, workload_version_id : {None}, workload_type : {None},
     workload_status : {None, PyStr(<<"S", "T", "A", "R", "T", "E", "D">>)},
     workload_version_name : {None}]

InitList ==
    /\ \E n \in 0..MaxNodes :
         /\ \E choice \in [1..n -> UNION {MsNodeChoices(i) : i \in 1..n}] :
              /\ \A i \in 1..n : choice[i] \in MsNodeChoices(i)
              /\ ls_nodes = choice
         /\ node_pathes = TreeOf(n)
    /\ ls_args \in ListArgs
    /\ ls_i = 0
    /\ ls_output = <<>>
    /\ ls_pc = "loop"
    /\ OthersIdle("list")

NextList ==
    \/ (NodesListNode /\ OthersUnchanged("list"))
    \/ (NodesListWrite /\ OthersUnchanged("list"))

SpecList == InitList /\ [][NextList]_vars

-----------------------------------------------------------------------------
(* NerveCLI._set_login and main *)

\* A URL is a sequence of tokens, "://" being one of them; a user name or a
\* password is a string.  Unset stands for None and for the empty string,
\* which the code tells apart nowhere (`if not ms_user`, `or`).
Unset == ""
NoUrl == <<>>
SchemeSeparator == "://"

\* str.startswith("http") on the first token
StartsWithHttp(url) == url # <<>> /\ url[1] \in {"http", "https", "httpd.io"}

\* str.split("://"): the parts between the separators
RECURSIVE SplitScheme(_)
SplitScheme(url) ==
    IF \A k \in 1..Len(url) : url[k] # SchemeSeparator THEN <<url>>
    ELSE LET k == CHOOSE j \in 1..Len(url) :
                     url[j] = SchemeSeparator /\ \A h \in 1..(j - 1) : url[h] # SchemeSeparator
         IN  <<SubSeq(url, 1, k - 1)>> \o SplitScheme(SubSeq(url, k + 1, Len(url)))

SetLoginResult(status, url, user, password) ==
    [status |-> status, ms_url |-> url, ms_user |-> user, ms_password |-> password]

\* the attribute was never assigned
NoAttribute == "no attribute"

\* lines 119-140: user and password for self.ms_url
SetLoginCredentials(url, ms_user, ms_password, config, env) ==
    IF ms_user # Unset /\ ms_password # Unset
    THEN SetLoginResult("ok", url, ms_user, ms_password)
    ELSE IF url \in DOMAIN config
         THEN IF \/ (ms_user = Unset /\ "username" \notin DOMAIN config[url])
                 \/ (ms_password = Unset /\ "password" \notin DOMAIN config[url])
              THEN SetLoginResult("KeyError", url, NoAttribute, NoAttribute)
              ELSE SetLoginResult("ok", url,
                       IF ms_user = Unset THEN config[url]["username"] ELSE ms_user,
                       IF ms_password = Unset THEN config[url]["password"] ELSE ms_password)
         ELSE IF \/ (env.MS_USR = Unset /\ ms_user = Unset)
                 \/ (env.MS_PSW = Unset /\ ms_password = Unset)
              THEN SetLoginResult("ok", url, ms_user, ms_password)
              ELSE SetLoginResult("ok", url, env.MS_USR, env.MS_PSW)

\* lines 103-140
SetLogin(ms_url, ms_user, ms_password, config, env) ==
    IF ms_url = NoUrl
    THEN LET ms_url_from_credentials ==
                 IF Cardinality(DOMAIN config) = 1 THEN CHOOSE s \in DOMAIN config : TRUE
                 ELSE NoUrl
             url == IF env.MS_URL # NoUrl THEN env.MS_URL ELSE ms_url_from_credentials
         IN  IF url = NoUrl THEN SetLoginResult("ok", url, NoAttribute, NoAttribute)
             ELSE SetLoginCredentials(url, ms_user, ms_password, config, env)
    ELSE IF StartsWithHttp(ms_url)
         THEN IF Len(SplitScheme(ms_url)) < 2
              THEN SetLoginResult("IndexError", NoAttribute, NoAttribute, NoAttribute)
              ELSE SetLoginCredentials(SplitScheme(ms_url)[2], ms_user, ms_password, config, env)
         ELSE SetLoginCredentials(ms_url, ms_user, ms_password, config, env)

\* lines 337-347: the section of credentials.ini named by args.ms_url gets the
\* user and the password that were given
StoreCredentials(config, a) ==
    LET section == IF a.ms_url \in DOMAIN config THEN config[a.ms_url] ELSE <<>>
        with_user == IF a.ms_user # Unset
                     THEN ("username" :> a.ms_user) @@ section ELSE section
        with_password == IF a.ms_password # Unset
                         THEN ("password" :> a.ms_password) @@ with_user ELSE with_user
    IN  (a.ms_url :> with_password) @@ config

\* lines 337-351: --store_credentials, before anything else is done
MainStoreCredentials ==
    /\ main_pc = "parsed"
    /\ credentials_ini' = IF main_args.store_credentials
                          THEN StoreCredentials(credentials_ini, main_args)
                          ELSE credentials_ini
    /\ main_log' = IF main_args.store_credentials
                   THEN Append(main_log, [level |-> "info", text |-> "Credentials stored",
                                          ms_url |-> main_args.ms_url])
                   ELSE main_log
    /\ main_pc' = "try"
    /\ UNCHANGED <<main_args, environ, login, cli, main_run>>

\* What MSHandle(url, user, password) and a sub-command may raise
ExceptionKinds ==
    {"ConnectionError", "ValueError: No username/password provided for MS login",
     "ValueError", "CheckStatusCodeError", "Exception"}

\* lines 383-404: print_trace for an exception of a class
PrintTrace(exception) == exception \in {"ValueError", "Exception", "KeyError", "IndexError"}

\* lines 375-408: what the handler logs
ErrorReport(exception) ==
    <<[level |-> "error", text |-> exception]>>
        \o (IF PrintTrace(exception) THEN <<[level |-> "exception", text |-> exception]>>
            ELSE <<>>)

\* lines 67-101: how NerveCLI(...) ends, "ok" or the exception raised, given
\* what _set_login did and what MSHandle does
Construction(result, handle) ==
    IF result.status # "ok" THEN result.status
    ELSE IF result.ms_url = NoUrl THEN "ok"
    ELSE handle

SubCommands == {"cli", "nodes_list"}

\* lines 353-408: the try block, NerveCLI(...) and the sub-command, and its
\* handler
MainTry ==
    /\ main_pc = "try"
    /\ LET result == SetLogin(main_args.ms_url, main_args.ms_user, main_args.ms_password,
                              credentials_ini, environ)
       IN  \E handle \in {"ok"} \cup ExceptionKinds, sub \in {"ok"} \cup ExceptionKinds :
              LET constructed == Construction(result, handle)
              IN  /\ login' = result
                  /\ cli' = IF constructed = "ok" THEN "bound" ELSE "unbound"
                  /\ main_log' =
                        main_log \o
                        (IF constructed # "ok" THEN ErrorReport(constructed)
                         ELSE <<[level |-> "info", text |-> "NerveCLI started"]>>
                                  \o (IF main_args.func # "cli" /\ sub # "ok"
                                      THEN ErrorReport(sub) ELSE <<>>))
    /\ main_pc' = "after_try"
    /\ UNCHANGED <<main_args, credentials_ini, environ, main_run>>

\* lines 410-414: the command loop of the "cli" sub-command; only
\* KeyboardInterrupt is handled there
MainCmdLoop ==
    /\ main_pc = "after_try"
    /\ main_pc' = IF main_args.func = "cli"
                  THEN (IF cli = "unbound" THEN "UnboundLocalError" ELSE "cmdloop")
                  ELSE "ended"
    /\ UNCHANGED <<main_args, credentials_ini, environ, login, cli, main_run, main_log>>

\* The program is started again with the same --ms_url and sub-command,
\* without user, password and --store_credentials; credentials.ini and the
\* environment are as the first run left them
MainStartAgain ==
    /\ main_pc \in {"ended", "cmdloop", "UnboundLocalError"}
    /\ main_run = 1
    /\ main_run' = 2
    /\ main_args' = [main_args EXCEPT !.ms_user = Unset, !.ms_password = Unset,
                                      !.store_credentials = FALSE]
    /\ login' = <<>>
    /\ cli' = "unbound"
    /\ main_pc' = "parsed"
    /\ UNCHANGED <<credentials_ini, environ, main_log>>

(* Inputs of main *)

UrlForms ==
    {NoUrl, <<"a.io">>, <<"https", SchemeSeparator, "a.io">>,
     <<"http", SchemeSeparator, "a.io">>, <<"httpd.io">>}

Section(user, password) == [username |-> user, password |-> password]

\* credentials.ini: absent or empty, one section for a.io, one for another
\* system, or both
CredentialFiles ==
    {<<>>,
     (<<"a.io">> :> Section("ini_user", "ini_password")),
     (<<"b.io">> :> Section("b_user", "b_password")),
     (<<"a.io">> :> Section("ini_user", "ini_password"))
         @@ (<<"b.io">> :> Section("b_user", "b_password"))}

Environments ==
    [MS_URL : {NoUrl, <<"a.io">>}, MS_USR : {Unset, "env_user"},
     MS_PSW : {Unset, "env_password"}]

InitMain ==
    /\ main_args \in [ms_url : UrlForms, ms_user : {Unset, "arg_user"},
                      ms_password : {Unset, "arg_password"},
                      store_credentials : BOOLEAN, func : SubCommands]
    /\ main_args.store_credentials
          => /\ main_args.ms_url # NoUrl
             /\ main_args.ms_user # Unset
             /\ main_args.ms_password # Unset
    /\ credentials_ini \in CredentialFiles
    /\ environ \in Environments
    /\ login = <<>>
    /\ cli = "unbound"
    /\ main_pc = "parsed"
    /\ main_run = 1
    /\ main_log = <<>>
    /\ OthersIdle("main")

NextMain ==
    \/ (MainStoreCredentials /\ OthersUnchanged("main"))
    \/ (MainTry /\ OthersUnchanged("main"))
    \/ (MainCmdLoop /\ OthersUnchanged("main"))
    \/ (MainStartAgain /\ OthersUnchanged("main"))

SpecMain == InitMain /\ [][NextMain]_vars

-----------------------------------------------------------------------------
(* service_os_dna *)

\* utils.file_read, lines 120-127, for the DNA file: None when there is no
\* file, else what the file holds
ReadDnaFile(file) == IF file.exists THEN file.content ELSE None

\* line 124, `if file:`: None, an empty mapping and an empty list are falsy
FileTruthy(file) == file.t # "none" /\ file.v # <<>>

DnaStep(call, payload, message) == [call |-> call, payload |-> payload, message |-> message]

\* lines 122-126
PutTargetSteps(a, file) ==
    IF ~a.put_target THEN <<>>
    ELSE IF FileTruthy(ReadDnaFile(file))
         THEN <<DnaStep("put_target", ReadDnaFile(file),
                        "ServiceOS DNA configuration deployed to node")>>
         ELSE <<DnaStep("none", None, "ServiceOS DNA configuration deployed to node")>>

\* lines 93-132: the calls made for one node and the message logged after
\* each, in the order of the code
DnaSteps(a, file) ==
    (IF a.get_current
     THEN <<DnaStep("get_current", None, "Current ServiceOS DNA configuration of node")>>
     ELSE <<>>)
    \o (IF a.get_target
        THEN <<DnaStep("get_target", None, "Target ServiceOS DNA configuration of node")>>
        ELSE <<>>)
    \o (IF a.status
        THEN <<DnaStep("get_status", None, "ServiceOS DNA status of node")>>
        ELSE <<>>)
    \o PutTargetSteps(a, file)
    \o (IF a.cancel
        THEN <<DnaStep("cancel_target", None, "ServiceOS DNA target deployment cancelled on node")>>
        ELSE <<>>)
    \o (IF a.re_apply
        THEN <<DnaStep("reapply_target", None, "ServiceOS DNA target re-apply triggered on node")>>
        ELSE <<>>)

CallsOf(steps, serial) ==
    LET made == SelectSeq(steps, LAMBDA step : step.call # "none")
    IN  [k \in 1..Len(made) |->
            [call |-> made[k].call, serial |-> serial, payload |-> made[k].payload]]

\* lines 91-132, the body of the loop for one node: every call returns, or
\* the failing-th step's call raises and the command ends there
DnaNode ==
    /\ dna_pc = "loop"
    /\ dna_i < Len(dna_nodes)
    /\ LET node == dna_nodes[dna_i + 1]
           steps == DnaSteps(dna_args, dna_file)
       IN  \E failing \in 0..Len(steps) :
              /\ failing # 0 => steps[failing].call # "none"
              /\ LET reached == IF failing = 0 THEN steps ELSE SubSeq(steps, 1, failing)
                     logged == IF failing = 0 THEN steps ELSE SubSeq(steps, 1, failing - 1)
                 IN  /\ dna_calls' = dna_calls \o CallsOf(reached, node.serialNumber)
                     /\ dna_log' = dna_log \o [k \in 1..Len(logged) |->
                                                  [message |-> logged[k].message,
                                                   node |-> node.name]]
              /\ dna_pc' = IF failing = 0 THEN "loop" ELSE "raised"
    /\ dna_i' = dna_i + 1
    /\ UNCHANGED <<dna_nodes, dna_args, dna_file>>

\* the loop of line 91 is exhausted
DnaDone ==
    /\ dna_pc = "loop"
    /\ dna_i = Len(dna_nodes)
    /\ dna_pc' = "done"
    /\ UNCHANGED <<dna_nodes, dna_args, dna_file, dna_i, dna_log, dna_calls>>

(* Inputs of service_os_dna *)

\* no DNA file, one that holds an empty mapping or an empty list, and one
\* with a configuration
DnaFiles ==
    {[exists |-> FALSE, content |-> None],
     [exists |-> TRUE, content |-> Mapping(<<>>)],
     [exists |-> TRUE, content |-> PyList(<<>>)],
     [exists |-> TRUE, content |-> Mapping(<<Item("workloads", PyList(<<>>))>>)]}

InitDna ==
    /\ \E n \in 0..MaxNodes : dna_nodes = [i \in 1..n |-> NodeOf(i)]
    /\ dna_args \in [get_current : BOOLEAN, get_target : BOOLEAN, status : BOOLEAN,
                     put_target : BOOLEAN, cancel : BOOLEAN, re_apply : BOOLEAN]
    /\ dna_file \in DnaFiles
    /\ dna_i = 0
    /\ dna_log = <<>>
    /\ dna_calls = <<>>
    /\ dna_pc = "loop"
    /\ OthersIdle("dna")

NextDna ==
    \/ (DnaNode /\ OthersUnchanged("dna"))
    \/ (DnaDone /\ OthersUnchanged("dna"))

SpecDna == InitDna /\ [][NextDna]_vars

-----------------------------------------------------------------------------
(* Claims about check_filter_arg *)

Returned == ret_val \in {"True", "False"}

IsNoFilter(f) == IsNone(f) \/ (IsStr(f) /\ f.v = <<>>)
IsRegexFilter(f) == IsStr(f) /\ StartsWith(f.v, RegexPrefix)

\* C1: whenever the filter is None or the empty string, check_filter_arg
\* returns true for every field value (strings, numbers, booleans, None).
C1_NoFilterAlwaysPasses ==
    (Returned /\ IsNoFilter(cmd_line_filter)) => ret_val = "True"

C1_Witness ==
    /\ ret_val = "True"
    /\ IsStr(cmd_line_filter) /\ cmd_line_filter.v = <<>>
    /\ IsNone(data_value)

\* C2 (as claimed): for every boolean, integer or non-regex string filter v
\* other than None and "", and every field value x, check_filter_arg(v, x)
\* is true if and only if x == v.
C2_LiteralIffEqual ==
    (Returned /\ ~IsNoFilter(cmd_line_filter) /\ ~IsRegexFilter(cmd_line_filter))
        => (ret_val = "True" <=> PyEq(data_value, cmd_line_filter))

\* A substring of s, from position i, of length n, fully matched by p
FullMatch(p, w) == Len(p) = Len(w) /\ \A k \in 1..Len(p) : p[k] \in {".", w[k]}
FoundInside(p, s) ==
    \E i \in 1..(Len(s) + 1) : \E j \in (i - 1)..Len(s) : FullMatch(p, SubSeq(s, i, j))

\* C3: for a filter "regex:" + p the result is true if and only if the field
\* value is a string and p is found anywhere inside it; every non-string
\* value (number, boolean, None) gives false.
C3_RegexSearchesStringsOnly ==
    (Returned /\ IsRegexFilter(cmd_line_filter))
        => (ret_val = "True" <=>
                (IsStr(data_value)
                 /\ FoundInside(SubSeq(cmd_line_filter.v, 7, Len(cmd_line_filter.v)),
                                data_value.v)))

\* a pattern found in the middle of the value but not at its start
C3_Witness ==
    /\ ret_val = "True"
    /\ cmd_line_filter = PyStr(RegexPrefix \o <<"b", ".">>)
    /\ data_value = PyStr(<<"a", "b", "a">>)

-----------------------------------------------------------------------------
(* Claims about filter_versions *)

Called == fv_result = Pending /\ fv_result' # Pending

NoVersionFilter(a) ==
    /\ ~Truthy(a.version_name) /\ ~Truthy(a.version_release_name)
    /\ ~Truthy(a.version_size_above) /\ ~Truthy(a.version_date_older_than)
    /\ ~Truthy(a.version_list_filter)

\* The sum of the sizes of a version's files, counted from the first file on
RECURSIVE TotalFrom(_, _)
TotalFrom(files, i) ==
    IF i > Len(files) THEN 0
    ELSE (IF IsStr(files[i].size) THEN DigitsVal(files[i].size.v) ELSE files[i].size.v)
             + TotalFrom(files, i + 1)

ExpectedTotal(v) == IF "files" \in DOMAIN v THEN TotalFrom(v["files"], 1) ELSE 0

\* out is version v with the one added field overall_size
SameButOverallSize(v, out) ==
    /\ DOMAIN out = DOMAIN v \cup {"overall_size"}
    /\ \A k \in DOMAIN v \ {"overall_size"} : out[k] = v[k]
    /\ out["overall_size"] = ExpectedTotal(v)

\* outs is the list vs, in order, each version with overall_size added
SameListButOverallSize(vs, outs) ==
    /\ Len(outs) = Len(vs)
    /\ \A i \in 1..Len(vs) : SameButOverallSize(vs[i], outs[i])

\* C4: with no version filter set, filter_versions returns the workload's
\* versions in the same order and with the same content, each with the added
\* field overall_size: the integer sum of files[].size, 0 without files.
C4_NoFilterKeepsVersions ==
    [][(Called /\ NoVersionFilter(args))
          => (/\ fv_result'.status = "returned"
              /\ SameListButOverallSize(workload_versions, fv_result'.versions))]_vars

\* two versions returned, one without files (0) and one with two files summed
C4_Witness ==
    /\ fv_result.status = "returned"
    /\ NoVersionFilter(args)
    /\ Len(fv_result.versions) = 2
    /\ "files" \notin DOMAIN fv_result.versions[1]
    /\ fv_result.versions[1]["overall_size"] = 0
    /\ "files" \in DOMAIN fv_result.versions[2]
    /\ Len(fv_result.versions[2]["files"]) = 2
    /\ fv_result.versions[2]["overall_size"] = 1025

\* The versions that reach the size filter: those passing the name filters
Candidates(vs, a) == SelectSeq(vs, LAMBDA v : PassesNameFilters(v, a))

\* C5: with version_size_above = N followed by B, KB, MB or GB, a version is
\* kept if and only if its overall_size is strictly greater than N * 1024^k
\* bytes: equal to the threshold is excluded, one byte more is included.
C5_SizeStrictlyAbove ==
    [][\A c \in SizeCases :
          (/\ Called
           /\ args.version_size_above = PyStr(SizeText(c))
           /\ ~Truthy(args.version_date_older_than)
           /\ ~Truthy(args.version_list_filter))
          => (/\ fv_result'.status = "returned"
              /\ SameListButOverallSize(
                     SelectSeq(Candidates(workload_versions, args),
                               LAMBDA v : ExpectedTotal(v) > SizeBytes(c)),
                     fv_result'.versions))]_vars

\* 1KB: the version of exactly 1024 bytes is dropped, the one of 1025 is kept
C5_Witness ==
    /\ args.version_size_above = PyStr(<<"1", "K", "B">>)
    /\ fv_result.status = "returned"
    /\ Len(workload_versions) = 2
    /\ workload_versions[1]["overall_size"] = 1024
    /\ workload_versions[2]["overall_size"] = 1025
    /\ Len(fv_result.versions) = 1
    /\ fv_result.versions[1]["overall_size"] = 1025

HasUnitSuffix(text) == \E u \in UnitSuffixes : Len(text) >= Len(u) /\ LastN(text, Len(u)) = u

\* C8 (as claimed): for every version_size_above whose unit suffix is not one
\* of GB, MB, KB, B, filter_versions fails with 'Invalid size format' for
\* every workload it is applied to, instead of returning a version list.
C8_MalformedUnitAlwaysFails ==
    (/\ fv_result # Pending
     /\ Truthy(args.version_size_above)
     /\ ~HasUnitSuffix(args.version_size_above.v))
        => fv_result.status = InvalidSizeFormat

\* The calendar date <<Y, M, D>> of a timestamp text
DateOf(ts) == <<ts[1], ts[2], ts[3]>>

\* a tuple of numbers is lexicographically before another of the same length
TupleBefore(a, b) ==
    \E k \in 1..Len(a) : a[k] < b[k] /\ \A j \in 1..(k - 1) : a[j] = b[j]

LastModifiedText(v) == IF "updatedAt" \in DOMAIN v THEN v["updatedAt"] ELSE v["createdAt"]

\* C9: with version_date_older_than = D, a version carrying createdAt is kept
\* if and only if its latest-modification timestamp (updatedAt when present,
\* otherwise createdAt) is strictly earlier than midnight at the start of D,
\* that is, falls on a calendar day before D.
C9_StrictlyOlderThanDate ==
    [][\A d \in DateTexts :
          (/\ Called
           /\ args.version_date_older_than = PyStr(d)
           /\ ~Truthy(args.version_size_above)
           /\ ~Truthy(args.version_list_filter)
           /\ \A i \in 1..Len(workload_versions) : "createdAt" \in DOMAIN workload_versions[i])
          => (/\ fv_result'.status = "returned"
              /\ SameListButOverallSize(
                     SelectSeq(Candidates(workload_versions, args),
                               LAMBDA v : TupleBefore(DateOf(LastModifiedText(v)), d)),
                     fv_result'.versions))]_vars

\* D = 2023-06-01: created before D but updated at midnight of D is dropped,
\* and a version last modified in the last microsecond before D is kept
C9_Witness ==
    /\ args.version_date_older_than = PyStr(<<2023, 6, 1>>)
    /\ fv_result.status = "returned"
    /\ Len(workload_versions) = 2
    /\ workload_versions[1]["createdAt"] = T_2023_01_01
    /\ "updatedAt" \in DOMAIN workload_versions[1]
    /\ workload_versions[1]["updatedAt"] = T_2023_06_01
    /\ "updatedAt" \notin DOMAIN workload_versions[2]
    /\ workload_versions[2]["createdAt"] = T_2023_05_31_Last
    /\ Len(fv_result.versions) = 1
    /\ fv_result.versions[1]["name"] = PositionName(2)

\* The candidates of the range selection, as filter_versions holds them:
\* the versions that passed the name filters, each with overall_size
RangeCandidates(vs, a) ==
    LET c == Candidates(vs, a)
    IN  [i \in 1..Len(c) |-> ("overall_size" :> ExpectedTotal(c[i])) @@ c[i]]

\* The place of version i of vs in ascending createdAt order, equal
\* timestamps in input order
RankByCreatedAt(vs, i) ==
    1 + Cardinality({j \in 1..Len(vs) :
                        \/ TupleBefore(vs[j]["createdAt"], vs[i]["createdAt"])
                        \/ (vs[j]["createdAt"] = vs[i]["createdAt"] /\ j < i)})

AscendingStable(vs) ==
    [k \in 1..Len(vs) |-> vs[CHOOSE i \in 1..Len(vs) : RankByCreatedAt(vs, i) = k]]

\* Array-slice semantics: position k (counted from 0) is selected when it
\* lies between the bounds, a negative bound counting from the end
BoundPosition(b, n, omitted) ==
    IF IsNone(b) THEN omitted ELSE IF b.v < 0 THEN n + b.v ELSE b.v

ArraySlice(seq, start, end) ==
    LET n == Len(seq)
        picked == {k \in 0..(n - 1) :
                      BoundPosition(start, n, 0) <= k /\ k < BoundPosition(end, n, n)}
    IN  [j \in 1..Cardinality(picked) |->
            seq[1 + CHOOSE k \in picked : Cardinality({m \in picked : m < k}) = j - 1]]

ColonCount(text) == Cardinality({k \in 1..Len(text) : text[k] = ":"})

\* C7: a version_list_filter that is a single index outside the range of the
\* candidate list, or that has more than one colon, makes filter_versions
\* fail with 'Invalid version_list_filter format'; no version list is returned.
C7_BadRangeFails ==
    [][Called =>
        LET n == Len(Candidates(workload_versions, args))
            text == args.version_list_filter.v
        IN  (\/ ColonCount(text) > 1
             \/ \E i \in (0 - MaxIndex)..MaxIndex :
                    text = IntText(i) /\ (i >= n \/ i < 0 - n))
                => /\ fv_result'.status = InvalidListFilter
                   /\ fv_result'.versions = <<>>]_vars

\* index 2 on a list of two candidates
C7_Witness ==
    /\ args.version_list_filter = PyStr(<<"2">>)
    /\ args.version_name = None
    /\ Len(workload_versions) = 2
    /\ fv_result.status = InvalidListFilter

\* C20: a version that carries updatedAt but no createdAt is accepted by the
\* age filter: the call returns, and such a version is in the result exactly
\* when its updatedAt falls on a day before the date.
C20_UpdatedAtAloneIsEnough ==
    [][\A d \in DateTexts :
          (Called /\ args.version_date_older_than = PyStr(d))
          => /\ fv_result'.status = "returned"
             /\ \A i \in 1..Len(workload_versions) :
                    LET v == workload_versions[i]
                    IN  ("createdAt" \notin DOMAIN v /\ "updatedAt" \in DOMAIN v)
                        => ((\E k \in 1..Len(fv_result'.versions) :
                                 fv_result'.versions[k]["name"] = v["name"])
                            <=> TupleBefore(DateOf(v["updatedAt"]), d))]_vars

\* C21: filter_versions never mutates the caller's list: after the call, with
\* any combination of filters, workload["versions"] holds the same records in
\* the same order as before the call.
C21_CallerListUntouched ==
    [][Called => workload_versions' = workload_versions]_vars

\* The versions that reach the range selection: the candidates that are above
\* the size threshold, when one is set, and last modified before the date,
\* when one is set
Survivors(vs, a) ==
    SelectSeq(RangeCandidates(vs, a), LAMBDA v :
        /\ a.version_size_above = Above5B => v["overall_size"] > 5
        /\ a.version_date_older_than = Before_2023_06_01
               => TupleBefore(DateOf(LastModifiedText(v)), <<2023, 6, 1>>))

\* C19: the filters apply in the order name, size, date, range, each to what
\* the one before left: without a range the result is the versions that
\* passed the name, size and date filters, in input order; a slice or an
\* index selects from those survivors sorted by createdAt, and an index
\* outside of them fails even when the workload has a version at that index.
C19_RangeOverSurvivors ==
    [][Called =>
        LET survivors == Survivors(workload_versions, args)
            sorted == AscendingStable(survivors)
            n == Len(sorted)
        IN  /\ args.version_list_filter = None
                  => fv_result' = Returns(survivors)
            /\ \A b \in PipelineBounds : \A e \in PipelineBounds :
                  args.version_list_filter = PyStr(SliceText(b, e))
                      => fv_result' = Returns(ArraySlice(sorted, b, e))
            /\ \A i \in {0 - 1, 0, 1} :
                  args.version_list_filter = PyStr(IntText(i))
                      => fv_result' = IF i >= n \/ i < 0 - n THEN Raises(InvalidListFilter)
                                      ELSE Returns(<<sorted[(IF i < 0 THEN n + i ELSE i) + 1]>>)]_vars

\* "-1" with a size filter: the newest version of the workload is too small,
\* so the older one, the newest of the survivors, is selected
C19_Witness ==
    /\ fv_result.status = "returned"
    /\ args.version_size_above = Above5B
    /\ args.version_list_filter = PyStr(<<"-", "1">>)
    /\ args.version_name = None
    /\ Len(workload_versions) = 2
    /\ workload_versions[1]["createdAt"] = T_2023_01_01
    /\ workload_versions[1]["overall_size"] = 6
    /\ workload_versions[2]["createdAt"] = T_2023_06_01
    /\ workload_versions[2]["overall_size"] = 5
    /\ Len(fv_result.versions) = 1
    /\ fv_result.versions[1]["name"] = PositionName(1)

-----------------------------------------------------------------------------
(* Claims about nodes_remote_connections *)

\* The list a node name has in an ordered dict, empty when it has no entry
ListOf(d, name) == IF DictHas(d, name) THEN DictGet(d, name) ELSE <<>>

\* An observed connection carries every key of the entry with an equal value
SupersetOf(observed, entry) ==
    \A key \in DOMAIN entry : key \in DOMAIN observed /\ observed[key] = entry[key]

\* C10: in the add action the to-add list of each node consists of exactly
\* the entries of the remotes file for which no observed connection of that
\* node has every key of the entry with an equal value (extra keys allowed),
\* in file order; a node without observed connections gets every entry.
C10_ToAddIsUnmatchedEntries ==
    [][(rc_pc = "add" /\ rc_pc' = "add_apply")
          => \A i \in 1..Len(nodes) :
                 LET observed == ms_remotes[nodes[i].serialNumber]
                 IN  ListOf(tunnels_to_add', nodes[i].name)
                         = SelectSeq(file_remotes, LAMBDA entry :
                               ~\E k \in 1..Len(observed) : SupersetOf(observed[k], entry))]_vars

\* the first node holds both tunnels (with _id and serialNumber) and is to get
\* the screen entry only; the second node holds nothing and gets both entries
C10_Witness ==
    /\ rc_pc = "add_apply" /\ rc_i = 0
    /\ Len(nodes) = 2
    /\ file_remotes = <<NameOnlyLocalUi, ScreenRdp>>
    /\ Len(ms_remotes[nodes[1].serialNumber]) = 2
    /\ ms_remotes[nodes[2].serialNumber] = <<>>
    /\ ListOf(tunnels_to_add, nodes[1].name) = <<ScreenRdp>>
    /\ ListOf(tunnels_to_add, nodes[2].name) = <<NameOnlyLocalUi, ScreenRdp>>

\* The positions of a node's connections on the management system that carry
\* every key of a file entry with an equal value
MatchesOf(observed, entry) ==
    {k \in 1..Len(observed) : SupersetOf(WithoutKeys(observed[k], StrippedKeys), entry)}

FirstMatchOf(observed, entry) ==
    CHOOSE k \in MatchesOf(observed, entry) : \A j \in MatchesOf(observed, entry) : k <= j

\* C11: in the delete action the to-remove list of each node holds, for every
\* entry of the remotes file that some observed connection of the node matches
\* (every key of the entry, equal value), the first such observed connection
\* in observed-list order, with its _id, and not the file entry; entries
\* without a match contribute nothing.
C11_ToRemoveIsFirstObservedMatch ==
    [][(rc_pc = "delete" /\ rc_pc' = "delete_apply")
          => \A i \in 1..Len(nodes) :
                 LET observed == ms_remotes[nodes[i].serialNumber]
                     matched == SelectSeq(file_remotes, LAMBDA entry :
                                    MatchesOf(observed, entry) # {})
                     to_remove == ListOf(tunnels_to_remove', nodes[i].name)
                 IN  /\ Len(to_remove) = Len(matched)
                     /\ \A j \in 1..Len(matched) :
                            LET first == observed[FirstMatchOf(observed, matched[j])]
                            IN  /\ "_id" \in DOMAIN to_remove[j]
                                /\ to_remove[j]["_id"] = first["_id"]
                                /\ to_remove[j] = WithoutKeys(first, StrippedKeys)]_vars

\* the first node holds the tunnels id2 and id1, in this order, and the file
\* asks for any connection named LocalUi and for a screen: id2 alone is to go
C11_Witness ==
    /\ rc_pc = "delete_apply" /\ rc_i = 0
    /\ Len(nodes) >= 1
    /\ file_remotes = <<NameOnlyLocalUi, ScreenRdp>>
    /\ Len(ms_remotes[nodes[1].serialNumber]) = 2
    /\ ms_remotes[nodes[1].serialNumber][1]["_id"] = "id2"
    /\ Len(ListOf(tunnels_to_remove, nodes[1].name)) = 1
    /\ ListOf(tunnels_to_remove, nodes[1].name)[1]["_id"] = "id2"
    /\ ListOf(tunnels_to_remove, nodes[1].name)[1] # NameOnlyLocalUi

-----------------------------------------------------------------------------
(* Claims about labels *)

IssuedLabelCall == Len(ms_label_calls') = Len(ms_label_calls) + 1

LastLabelCall == ms_label_calls'[Len(ms_label_calls')]

Mutations == {"add_remote_connection", "remove_remote_connection"}

IssuedMutation ==
    /\ Len(ms_calls') = Len(ms_calls) + 1
    /\ ms_calls'[Len(ms_calls')].call \in Mutations

MutationsTo(calls, serial) ==
    {p \in 1..Len(calls) : calls[p].call \in Mutations /\ calls[p].serial = serial}

\* C13: in the add and delete actions, when a mutation call is issued the
\* observed connections of every node of the file have been fetched and the
\* aggregated lists have been reported, the call carries the reported list of
\* its node, that list is not empty and the node has had no call before; when
\* the action ends every node with a reported list has had its one call.
C13_ReportThenOneCallPerNode ==
    [][/\ IssuedMutation
          => LET mutation == ms_calls'[Len(ms_calls')]
                 affected == {i \in 1..Len(nodes) : nodes[i].serialNumber = mutation.serial}
             IN  /\ \A i \in 1..Len(nodes) :
                        \E q \in 1..Len(ms_calls) :
                            ms_calls[q] = [call |-> "get_remote_connections",
                                           serial |-> nodes[i].serialNumber]
                 /\ Len(rc_log) = 1
                 /\ \E i \in affected :
                        mutation.remote_connection = ListOf(rc_log[1].data, nodes[i].name)
                 /\ mutation.remote_connection # <<>>
                 /\ MutationsTo(ms_calls, mutation.serial) = {}
       /\ (rc_pc # "done" /\ rc_pc' = "done")
          => /\ Len(rc_log) = 1
             /\ \A i \in 1..Len(nodes) :
                    Cardinality(MutationsTo(ms_calls, nodes[i].serialNumber))
                        = IF ListOf(rc_log[1].data, nodes[i].name) # <<>> THEN 1 ELSE 0]_vars

\* a delete over two nodes has ended: both were fetched first, then the one
\* node that holds a connection of the file got its single call
C13_Witness ==
    /\ rc_pc = "done"
    /\ Len(nodes) = 2
    /\ Len(ms_calls) = 3
    /\ ms_calls[1].call = "get_remote_connections"
    /\ ms_calls[2].call = "get_remote_connections"
    /\ ms_calls[3].call = "remove_remote_connection"
    /\ Len(rc_log) = 1 /\ Len(rc_log[1].data) = 1


\* the list of one node of the file, from what the management system holds
\* for its serial number: the file entries no connection of the node matches,
\* or the first connection of the node that matches, for each entry that has one
OwnToAdd(i) ==
    SelectSeq(file_remotes, LAMBDA entry :
        MatchesOf(ms_remotes[nodes[i].serialNumber], entry) = {})
OwnToRemove(i) ==
    LET observed == ms_remotes[nodes[i].serialNumber]
        matched == SelectSeq(file_remotes, LAMBDA entry : MatchesOf(observed, entry) # {})
    IN  [j \in 1..Len(matched) |->
            WithoutKeys(observed[FirstMatchOf(observed, matched[j])], StrippedKeys)]

\* C26: in the add and delete actions every node of the nodes file whose
\* to-add (or to-remove) list is not empty gets exactly one mutation call,
\* addressed to its own serial number and carrying only its own list, also
\* when two nodes of the file have the same name.
C26_OwnListToOwnSerial ==
    [][/\ (rc_pc = "add" /\ rc_pc' = "add_apply")
          => \A i \in 1..Len(nodes) :
                 ListOf(tunnels_to_add', nodes[i].name) = OwnToAdd(i)
       /\ (rc_pc = "delete" /\ rc_pc' = "delete_apply")
          => \A i \in 1..Len(nodes) :
                 ListOf(tunnels_to_remove', nodes[i].name) = OwnToRemove(i)
       /\ IssuedMutation
          => \E i \in 1..Len(nodes) :
                 /\ nodes[i].serialNumber = ms_calls'[Len(ms_calls')].serial
                 /\ ms_calls'[Len(ms_calls')].remote_connection
                        = ListOf(rc_log[1].data, nodes[i].name)
       /\ (rc_pc # "done" /\ rc_pc' = "done")
          => \A i \in 1..Len(nodes) :
                 Cardinality(MutationsTo(ms_calls, nodes[i].serialNumber))
                     = IF ListOf(rc_log[1].data, nodes[i].name) # <<>> THEN 1 ELSE 0]_vars

-----------------------------------------------------------------------------
(* Claims about the delete action of ms_workloads *)

IssuedDeleteCall == Len(wd_calls') = Len(wd_calls) + 1

LastDeleteCall == wd_calls'[Len(wd_calls')]

FailedDeletionsOf(calls, workload_name) ==
    {p \in 1..Len(calls) : /\ calls[p].call = "delete_workload_version"
                           /\ calls[p].workload = workload_name
                           /\ calls[p].outcome # "deleted"}

\* C14: in the delete action of ms_workloads a failed deletion of a listed
\* version is logged, delete_workload is not called for a workload one of
\* whose listed versions failed to delete, and it is called only when the
\* management system holds no version of the workload.
C14_NoWorkloadDeleteAfterFailure ==
    [][IssuedDeleteCall
          => /\ (LastDeleteCall.call = "delete_workload_version"
                     /\ LastDeleteCall.outcome # "deleted")
                => /\ Len(wd_log') = Len(wd_log) + 1
                   /\ wd_log'[Len(wd_log')].workload = LastDeleteCall.workload
                   /\ wd_log'[Len(wd_log')].version = LastDeleteCall.version
             /\ LastDeleteCall.call = "delete_workload"
                => /\ FailedDeletionsOf(wd_calls, LastDeleteCall.workload) = {}
                   /\ ms_versions[LastDeleteCall.workload] = {}]_vars

-----------------------------------------------------------------------------
(* Claims about nodes_reboot *)

\* the names of the nodes of the events of one kind, in the order of the trace
RECURSIVE NodesOfEvents(_, _)
NodesOfEvents(trace, event) ==
    IF trace = <<>> THEN <<>>
    ELSE (IF Head(trace).event = event THEN <<Head(trace).node>> ELSE <<>>)
             \o NodesOfEvents(Tail(trace), event)

NodeNames == [i \in 1..Len(rb_nodes) |-> rb_nodes[i].name]

AnsweredYes == {<<"y">>, <<"Y">>}

\* the nodes of the file whose prompt was not answered with something else
NotDeclined ==
    SelectSeq(NodeNames, LAMBDA name :
        ~\E p \in 1..Len(rb_trace) :
            /\ rb_trace[p].event = "prompt"
            /\ rb_trace[p].node = name
            /\ rb_trace[p].detail \notin AnsweredYes)

RebootConflict ==
    /\ Len(rb_trace') = Len(rb_trace) + 1
    /\ rb_trace'[Len(rb_trace')].event = "reboot"
    /\ rb_trace'[Len(rb_trace')].detail = "conflict"

\* C15: when the reboot of a node fails with the conflict status, a warning is
\* logged for that node and the loop goes on with the next node of the file;
\* when the command ends, a reboot has been attempted for every node of the
\* file that was not declined at its prompt, in file order.
C15_ConflictDoesNotStopTheLoop ==
    [][/\ RebootConflict
          => /\ rb_log' # <<>>
             /\ rb_log'[Len(rb_log')].level = "warning"
             /\ rb_log'[Len(rb_log')].node = rb_trace'[Len(rb_trace')].node
             /\ rb_pc' \in {"prompt", "reboot"}
             /\ rb_i' = rb_i + 1
       /\ (rb_pc # "done" /\ rb_pc' = "done")
          => NodesOfEvents(rb_trace, "reboot") = NotDeclined]_vars

\* with the yes option the first of two nodes was offline and the second one
\* was rebooted all the same
C15_Witness ==
    /\ rb_pc = "done"
    /\ rb_yes
    /\ Len(rb_nodes) = 2
    /\ rb_trace = <<[event |-> "reboot", node |-> rb_nodes[1].name, detail |-> "conflict"],
                    [event |-> "reboot", node |-> rb_nodes[2].name, detail |-> "ok"]>>
    /\ \E k \in 1..Len(rb_log) : rb_log[k].level = "warning" /\ rb_log[k].node = rb_nodes[1].name

RebootStatusError ==
    /\ Len(rb_trace') = Len(rb_trace) + 1
    /\ rb_trace'[Len(rb_trace')].event = "reboot"
    /\ rb_trace'[Len(rb_trace')].detail = "status_error"

\* C23: when the reboot of a node fails with a remote status error other than
\* conflict, an error is logged for that node and the loop goes on with the
\* following nodes.
C23_StatusErrorIsLogged ==
    [][RebootStatusError
          => /\ rb_log'[Len(rb_log')].level = "error"
             /\ rb_log'[Len(rb_log')].node = rb_trace'[Len(rb_trace')].node
             /\ rb_pc' \in {"prompt", "reboot"}]_vars

\* C18: without the yes option a reboot call always directly follows the
\* prompt of the same node answered "y" or "Y", a prompt answered so is
\* followed by the reboot of its node, and any other answer skips the node
\* (no reboot, a log entry) and the loop goes on; with the yes option no
\* prompt is shown and every node of the file processed so far was rebooted.
C18_RebootOnlyAfterYes ==
    /\ ~rb_yes =>
         \A p \in 1..Len(rb_trace) :
             /\ rb_trace[p].event = "reboot"
                => /\ p > 1
                   /\ rb_trace[p - 1].event = "prompt"
                   /\ rb_trace[p - 1].node = rb_trace[p].node
                   /\ rb_trace[p - 1].detail \in AnsweredYes
             /\ (rb_trace[p].event = "prompt" /\ rb_trace[p].detail \in AnsweredYes)
                => IF p = Len(rb_trace) THEN rb_pc = "reboot"
                   ELSE /\ rb_trace[p + 1].event = "reboot"
                        /\ rb_trace[p + 1].node = rb_trace[p].node
             /\ (rb_trace[p].event = "prompt" /\ rb_trace[p].detail \notin AnsweredYes)
                => /\ \A q \in 1..Len(rb_trace) :
                          rb_trace[q].event = "reboot" => rb_trace[q].node # rb_trace[p].node
                   /\ \E k \in 1..Len(rb_log) :
                          rb_log[k].message = "Skipping node" /\ rb_log[k].node = rb_trace[p].node
                   /\ p = Len(rb_trace) => rb_pc \in {"prompt", "done"}
                   /\ p < Len(rb_trace) => /\ rb_trace[p + 1].event = "prompt"
                                           /\ rb_trace[p + 1].node # rb_trace[p].node
    /\ rb_yes =>
         /\ NodesOfEvents(rb_trace, "prompt") = <<>>
         /\ NodesOfEvents(rb_trace, "reboot") = SubSeq(NodeNames, 1, rb_i)
         /\ rb_pc = "done" => rb_i = Len(rb_nodes)

\* the first node was confirmed with a capital Y and rebooted, the second one
\* was declined and passed over
C18_Witness ==
    /\ rb_pc = "done"
    /\ ~rb_yes
    /\ Len(rb_nodes) = 2
    /\ Len(rb_trace) = 3
    /\ rb_trace[1] = [event |-> "prompt", node |-> rb_nodes[1].name, detail |-> <<"Y">>]
    /\ rb_trace[2].event = "reboot" /\ rb_trace[2].node = rb_nodes[1].name
    /\ rb_trace[3] = [event |-> "prompt", node |-> rb_nodes[2].name, detail |-> <<"n">>]

-----------------------------------------------------------------------------
(* Claims about the interactive session *)

SubCommandRaised ==
    /\ Len(cli_history') = Len(cli_history) + 1
    /\ cli_history'[Len(cli_history')].outcome \notin {"returned", "stop"}

\* C16: in the interactive session, when a sub-command raises a filter or
\* selection error only that sub-command ends: the session is at its prompt
\* again and takes the next line.
C16_SessionSurvivesSubCommandError ==
    [][SubCommandRaised => cli_pc' = "prompt"]_vars

-----------------------------------------------------------------------------
(* Claims about the nodes file *)

\* C17: after nodes_list --add has written to a file that held a node list,
\* file_read returns one sequence: the records stored before followed by the
\* records listed now.
C17_AppendThenReadConcatenates ==
    nl_pc = "done" => read_result = Returns(stored \o output)


\* C22: reconciliation is idempotent across runs: with unchanged files, the
\* second run of the add action issues no add_remote_connection call and the
\* second run of the delete action issues no remove_remote_connection call.
C22_SecondRunIssuesNothing ==
    [][rc_run = 2 => ~IssuedMutation]_vars

-----------------------------------------------------------------------------
(* Claims about find_path *)

IsNamed(data, node_name) ==
    /\ data.t = "dict"
    /\ \E k \in 1..Len(data.v) :
          /\ data.v[k].key = "name"
          /\ data.v[k].value.t = "str"
          /\ data.v[k].value.v = node_name

\* the keys leading to the first mapping named node_name, in depth-first
\* order, as [found, path]
RECURSIVE FirstNamed(_, _, _)
RECURSIVE FirstNamedFrom(_, _, _, _)
FirstNamedFrom(data, node_name, path, k) ==
    IF k > Len(data.v) THEN [found |-> FALSE, path |-> <<>>]
    ELSE LET below == IF data.t = "dict"
                      THEN FirstNamed(data.v[k].value, node_name, Append(path, data.v[k].key))
                      ELSE FirstNamed(data.v[k], node_name, path)
         IN  IF below.found THEN below
             ELSE FirstNamedFrom(data, node_name, path, k + 1)

FirstNamed(data, node_name, path) ==
    IF IsNamed(data, node_name) THEN [found |-> TRUE, path |-> path]
    ELSE IF data.t \in {"dict", "list"} THEN FirstNamedFrom(data, node_name, path, 1)
    ELSE [found |-> FALSE, path |-> <<>>]

\* C28: for every node tree that contains a mapping whose "name" equals the
\* node name, find_path returns a list, never None: the keys leading to the
\* first such mapping in depth-first order, the empty list when the mapping is
\* directly under the root; the node's path string can then be built.
C28_FindPathReturnsThePath ==
    (fp_pc = "returned" /\ FirstNamed(fp_data, fp_name, <<>>).found)
        => /\ fp_result.t = "list"
           /\ fp_result.v = FirstNamed(fp_data, fp_name, <<>>).path
           /\ fp_joined.status = "joined"

-----------------------------------------------------------------------------
(* Claims about nodes_list *)

\* the workload filters and the field of a workload each one looks at
WorkloadFilterField ==
    [workload_name |-> "device_name", workload_id |-> "workloadId",
     workload_version_id |-> "versionId", workload_version_name |-> "version_name",
     workload_type |-> "type", workload_status |-> "state"]

IsGiven(f) == ~IsNone(f) /\ f # PyStr(<<>>)

GivenWorkloadFilters == {f \in DOMAIN WorkloadFilterField : IsGiven(ls_args[f])}

PassesGiven(wl) ==
    \A f \in GivenWorkloadFilters : CheckFilterArg(ls_args[f], wl[WorkloadFilterField[f]])

PassesAllNodeFilters(node) ==
    /\ \A f \in {"name", "currentFWVersion", "model"} :
          LET filter_of == [name |-> "node_name", currentFWVersion |-> "node_version",
                            model |-> "node_model"]
          IN  CheckFilterArg(ls_args[filter_of[f]], node[f])
    /\ CheckFilterArg(ls_args.node_labels, PyStr(LabelsText(node.labels)))
    /\ CheckFilterArg(ls_args.node_path,
                      PyStr(JoinSlash(FirstNamed(node_pathes, node.name.v, <<>>).path)))
    /\ ls_args.node_connected => node.connectionStatus = "online"

EntriesOf(node) == {k \in 1..Len(ls_output) : ls_output[k]["name"] = node.name}

\* C24: when at least one workload filter is given, a node is written to the
\* output if and only if it passes all node filters, is online and at least
\* one of its workloads passes every given workload filter; its "workloads"
\* field then holds exactly the passing workloads, in the order reported.
C24_ListedIffAWorkloadPasses ==
    (ls_pc = "written" /\ GivenWorkloadFilters # {})
        => \A i \in 1..Len(ls_nodes) :
              LET node == ls_nodes[i]
                  passing == SelectSeq(node.workloads, PassesGiven)
              IN  /\ EntriesOf(node) # {}
                        <=> /\ PassesAllNodeFilters(node)
                            /\ node.connectionStatus = "online"
                            /\ passing # <<>>
                  /\ Cardinality(EntriesOf(node)) <= 1
                  /\ \A k \in EntriesOf(node) :
                        /\ "workloads" \in DOMAIN ls_output[k]
                        /\ Len(ls_output[k]["workloads"]) = Len(passing)
                        /\ \A j \in 1..Len(passing) :
                              /\ ls_output[k]["workloads"][j].device_id = passing[j].id
                              /\ ls_output[k]["workloads"][j].name = passing[j].device_name
                              /\ ls_output[k]["workloads"][j].state = passing[j].state

\* with a name and a status filter and no node filter, the first node is
\* online with one workload that has not the status and is left out, the
\* second has two workloads, is written and holds the passing one alone
C24_Witness ==
    /\ ls_pc = "written"
    /\ IsGiven(ls_args.workload_name)
    /\ IsGiven(ls_args.workload_status)
    /\ IsNone(ls_args.node_name) /\ IsNone(ls_args.node_path)
    /\ Len(ls_nodes) = 2
    /\ ls_nodes[1].connectionStatus = "online"
    /\ ls_nodes[1].workloads = <<WorkloadA>>
    /\ ls_nodes[2].workloads = <<WorkloadA, WorkloadB>>
    /\ Len(ls_output) = 1
    /\ ls_output[1]["name"] = ls_nodes[2].name
    /\ ls_output[1]["workloads"] = <<NodeWl(WorkloadB)>>

-----------------------------------------------------------------------------
(* Claims about _set_login and main *)

StoredFor(url) ==
    \E k \in 1..Len(main_log) :
        /\ main_log[k].text = "Credentials stored"
        /\ main_log[k].ms_url = url

\* C25: credentials stored with --store_credentials for a --ms_url value are
\* the ones NerveCLI reads from credentials.ini when it is started with the
\* same --ms_url value and without user or password, for every accepted URL
\* form, those with an http:// or https:// scheme included.
C25_StoredCredentialsAreRead ==
    (/\ main_run = 2
     /\ main_pc \in {"after_try", "ended", "cmdloop", "UnboundLocalError"}
     /\ StoredFor(main_args.ms_url))
        => /\ login.status = "ok"
           /\ main_args.ms_url \in DOMAIN credentials_ini
           /\ login.ms_user = credentials_ini[main_args.ms_url]["username"]
           /\ login.ms_password = credentials_ini[main_args.ms_url]["password"]

\* C27: a user name or password passed explicitly is the one used for the
\* login: _set_login never replaces it by a value from credentials.ini or
\* from the MS_USR/MS_PSW environment variables.
C27_ExplicitCredentialsAreKept ==
    (/\ main_pc \in {"after_try", "ended", "cmdloop", "UnboundLocalError"}
     /\ login.status = "ok"
     /\ login.ms_url # NoUrl)
        => /\ main_args.ms_user # Unset => login.ms_user = main_args.ms_user
           /\ main_args.ms_password # Unset => login.ms_password = main_args.ms_password

ConstructionFailed ==
    /\ main_pc \in {"after_try", "ended", "cmdloop", "UnboundLocalError"}
    /\ cli = "unbound"

\* C29: when main is started with the "cli" sub-command and the construction
\* of NerveCLI fails, the failure is reported once by the error handler and
\* main then ends without entering the command loop and without raising a
\* further unhandled error.
C29_FailedConstructionEndsMain ==
    (main_args.func = "cli" /\ ConstructionFailed)
        => /\ Cardinality({k \in 1..Len(main_log) : main_log[k].level = "error"}) = 1
           /\ main_pc \notin {"cmdloop", "UnboundLocalError"}

-----------------------------------------------------------------------------
(* Claims about service_os_dna *)

DeployedMessage == "ServiceOS DNA configuration deployed to node"

\* C30: with put_target, "ServiceOS DNA configuration deployed to node" is
\* reported for a node only if put_target was invoked for that node with the
\* content of the DNA file; when the file is missing or empty no deployment
\* is reported.
C30_DeployedOnlyIfPut ==
    \A k \in 1..Len(dna_log) :
        dna_log[k].message = DeployedMessage
            => /\ dna_file.exists
               /\ \E c \in 1..Len(dna_calls) :
                     /\ dna_calls[c].call = "put_target"
                     /\ dna_calls[c].payload = dna_file.content
                     /\ \E i \in 1..Len(dna_nodes) :
                           /\ dna_nodes[i].name = dna_log[k].node
                           /\ dna_nodes[i].serialNumber = dna_calls[c].serial

=============================================================================
